---- MODULE Spec2Model ----
(***************************************************************************)
(* A model of balloons/core.py: the value/identity model, the recursive    *)
(* inflate/deflate codec, the per-type cache, specialized provider and     *)
(* tracker, the dynamic-type (namespace) manager, the polymorphic provider *)
(* and tracker, and the closed/open world construction.                    *)
(*                                                                         *)
(* Python values are tagged tuples.  A Python str is a sequence of tokens, *)
(* so that the reference string "Dog:a" is <<"Dog", ":", "a">> and         *)
(* str.partition(":") is computed rather than assumed.  An instance of a   *)
(* balloon class is <<"obj", class, oid, fields>>: `oid` stands for the    *)
(* object's identity (Python's `is`), `fields` for its __dict__.           *)
(***************************************************************************)
EXTENDS Integers, Sequences, FiniteSets, TLC

\* ------------------------------------------------------------------ bounds

\* Atomic payloads (Dog.obedience, Bird.song) range over 1..MaxAtom.
MaxAtom == 2

\* The caller constructs up to NumInstances distinct in-memory instances with
\* the same class and the same field values.
NumInstances == 2

Atoms == 1..MaxAtom

\* ------------------------------------------------------------ Python values

PyNone == <<"none">>

PyInt(n) == <<"int", n>>

PyStr(toks) == <<"str", toks>>

PyList(items) == <<"list", items>>

PyTuple(items) == <<"tuple", items>>

PySet(elems) == <<"set", elems>>

\* A dict is its set of <<key, value>> items.
PyDict(items) == <<"dict", items>>

PyEnum(cls, member) == <<"enum", cls, member>>

Obj(cls, oid, fields) == <<"obj", cls, oid, fields>>

Kind(v) == v[1]

\* The identity of an instance that is never compared with `is`.
NoId == <<"anon", 0>>

\* The instance number k that the caller constructed.
NewId(k) == <<"new", k>>

\* The instance that world w constructed when it read the file of a name.
LoadedId(w) == <<w, 0>>

EmptyMap == [x \in {} |-> x]

MapPut(m, k, v) == [x \in DOMAIN m \cup {k} |-> IF x = k THEN v ELSE m[x]]

\* Some enumeration of a finite set (iteration order of a Python set or dict).
RECURSIVE SetToSeq(_)
SetToSeq(S) == IF S = {} THEN <<>> ELSE LET x == CHOOSE y \in S : TRUE IN <<x>> \o SetToSeq(S \ {x})

\* ------------------------------------------------------------------ schema
\* class Animal(Balloon); class Dog(Animal): obedience: int; class Bird(NamedBalloon,
\* Animal): song: int; class Owner(Balloon): pet: Animal | None; class Kennel(Balloon):
\* dogs: tuple[Animal], flock: set[Animal], moods: dict[Animal, Mood].  Dog, Owner and
\* Kennel get their named class from the decorator; Bird is a name-only class.

\* types_ of ClosedBalloonWorld.create: the managed (base) classes.
Types == {"Dog", "Bird", "Owner", "Kennel"}

\* namespace_types of ClosedBalloonWorld.create.
NamespaceTypes == {"Animal", "Owner", "Kennel"}

\* Classes a caller may request a provider or tracker for.
RequestTypes == {"Animal", "Bird", "Owner", "Balloon"}

\* cls.Named of the balloon decorator.
NamedOf(t) ==
    CASE t = "Dog" -> "Dog.Named"
      [] t = "Owner" -> "Owner.Named"
      [] t = "Kennel" -> "Kennel.Named"
      [] t = "Bird" -> "Bird"
      [] OTHER -> "NoNamed"

\* named_cls.Base of the balloon decorator.
BaseOf(c) ==
    CASE c = "Dog.Named" -> "Dog"
      [] c = "Owner.Named" -> "Owner"
      [] c = "Kennel.Named" -> "Kennel"
      [] OTHER -> c

\* issubclass(c, NamedBalloon)
IsNamedClass(c) == c \in {"Dog.Named", "Owner.Named", "Kennel.Named", "Bird"}

\* Classes the decorator passed through unchanged because they subclass NamedBalloon.
NameOnlyClasses == {"Bird"}

\* issubclass(c, d), over the classes of the schema.
IsSubclass(c, d) ==
    \/ c = d
    \/ d = "Balloon"
    \/ d = "Animal" /\ c \in {"Dog", "Dog.Named", "Bird"}
    \/ d = "Dog" /\ c = "Dog.Named"
    \/ d = "Owner" /\ c = "Owner.Named"
    \/ d = "Kennel" /\ c = "Kennel.Named"
    \/ d = "NamedBalloon" /\ IsNamedClass(c)

\* Static types (annotations).
TInt == <<"atomic", "int">>

TStr == <<"atomic", "str">>

TClass(c) == <<"class", c>>

TEnum(e) == <<"enumclass", e>>

TOpt(t) == <<"union", t>>

TTuple(t) == <<"tuple", t>>

TSet(t) == <<"set", t>>

TDict(k, v) == <<"dict", k, v>>

\* The members of the enum class Mood.
EnumMembers(e) == IF e = "Mood" THEN {"CALM", "WILD"} ELSE {}

\* get_type_hints(cls) without "name": the payload fields of a class.
PayloadTypes(c) ==
    CASE BaseOf(c) = "Dog" -> [obedience |-> TInt]
      [] BaseOf(c) = "Bird" -> [song |-> TInt]
      [] BaseOf(c) = "Owner" -> [pet |-> TOpt(TClass("Animal"))]
      [] BaseOf(c) = "Kennel" -> [dogs |-> TTuple(TClass("Animal")), flock |-> TSet(TClass("Animal")),
                                  moods |-> TDict(TClass("Animal"), TEnum("Mood"))]
      [] OTHER -> EmptyMap

\* get_type_hints(cls): a named class also has the field name: str.
FieldTypes(c) == IF IsNamedClass(c) THEN MapPut(PayloadTypes(c), "name", TStr) ELSE PayloadTypes(c)

\* type_.__qualname__ as a token sequence.
QualName(t) == <<t>>

NameOf(b) == b[4].name[2]

ClassOf(b) == b[2]

FieldsOf(b) == b[4]

\* isinstance(v, NamedBalloon)
IsNamed(v) == Kind(v) = "obj" /\ IsNamedClass(ClassOf(v))

\* --------------------------------------------------- equality and hashing

\* The dataclass fields of a class in definition order (bases first).
FieldOrder(c) ==
    CASE c = "Dog" -> <<"obedience">>
      [] c = "Dog.Named" -> <<"obedience", "name">>
      [] c = "Bird" -> <<"name", "song">>
      [] c = "Owner" -> <<"pet">>
      [] c = "Owner.Named" -> <<"pet", "name">>
      [] c = "Kennel" -> <<"dogs", "flock", "moods">>
      [] c = "Kennel.Named" -> <<"dogs", "flock", "moods", "name">>
      [] OTHER -> <<>>

\* The fields the class's __eq__ compares.  dataclass(frozen=True) generates
\* __eq__ over the fields of the decorated class; the derived X.Named class is made
\* with eq=False and NamedBalloon is declared with eq=False, so X.Named inherits
\* X.__eq__, which compares X's fields and not the name.  A name-only class is
\* itself decorated, so its __eq__ compares all of its fields, the name included.
EqFields(c) == IF c \in NameOnlyClasses THEN FieldOrder(c) ELSE FieldOrder(BaseOf(c))

RECURSIVE HashKey(_)
RECURSIVE PyEq(_, _)
\* x == y
PyEq(x, y) ==
    IF Kind(x) # Kind(y) THEN FALSE
    ELSE CASE Kind(x) = "obj" ->
                /\ ClassOf(x) = ClassOf(y)
                /\ \A i \in DOMAIN EqFields(ClassOf(x)) :
                      LET f == EqFields(ClassOf(x))[i]
                      IN  FieldsOf(x)[f] = FieldsOf(y)[f] \/ PyEq(FieldsOf(x)[f], FieldsOf(y)[f])
           [] Kind(x) = "tuple" ->
                /\ Len(x[2]) = Len(y[2])
                /\ \A i \in DOMAIN x[2] : x[2][i] = y[2][i] \/ PyEq(x[2][i], y[2][i])
           [] Kind(x) = "set" ->
                /\ Cardinality(x[2]) = Cardinality(y[2])
                /\ \A e \in x[2] : \E g \in y[2] : HashKey(e) = HashKey(g) /\ (e = g \/ PyEq(e, g))
           [] Kind(x) = "dict" ->
                /\ Cardinality(x[2]) = Cardinality(y[2])
                /\ \A e \in x[2] : \E g \in y[2] :
                      /\ HashKey(e[1]) = HashKey(g[1])
                      /\ e[1] = g[1] \/ PyEq(e[1], g[1])
                      /\ e[2] = g[2] \/ PyEq(e[2], g[2])
           [] OTHER -> x = y

\* hash(v), up to collisions: values with different keys are never found equal by
\* a set or a dict.  NamedBalloon.__hash__ is the hash of "<Base qualname>:<name>";
\* a name-only class and an anonymous record get the dataclass hash of their
\* fields.
HashKey(v) ==
    CASE Kind(v) = "obj" /\ IsNamedClass(ClassOf(v)) /\ ClassOf(v) \notin NameOnlyClasses ->
            PyStr(QualName(BaseOf(ClassOf(v))) \o <<":">> \o NameOf(v))
      [] Kind(v) = "obj" ->
            <<"tuple", [i \in DOMAIN FieldOrder(ClassOf(v)) |-> HashKey(FieldsOf(v)[FieldOrder(ClassOf(v))[i]])]>>
      [] Kind(v) = "tuple" -> <<"tuple", [i \in DOMAIN v[2] |-> HashKey(v[2][i])]>>
      [] OTHER -> v

RECURSIVE Hashable(_)
\* Whether hash(v) returns: dict, list and set are unhashable, a tuple hashes its
\* items, a dataclass instance its fields, a derived named instance only a string.
Hashable(v) ==
    CASE Kind(v) \in {"dict", "list", "set"} -> FALSE
      [] Kind(v) = "tuple" -> \A i \in DOMAIN v[2] : Hashable(v[2][i])
      [] Kind(v) = "obj" /\ IsNamedClass(ClassOf(v)) /\ ClassOf(v) \notin NameOnlyClasses -> TRUE
      [] Kind(v) = "obj" -> \A f \in DOMAIN FieldsOf(v) : Hashable(FieldsOf(v)[f])
      [] OTHER -> TRUE

\* x in s, for the elements s of a set or the keys of a dict.
PyIn(x, s) == \E g \in s : HashKey(x) = HashKey(g) /\ (x = g \/ PyEq(x, g))

RECURSIVE PySetOf(_)
\* The elements of set(items): an element equal to an earlier one is dropped.
PySetOf(items) ==
    IF items = <<>> THEN {}
    ELSE LET n == Len(items)
             before == PySetOf(SubSeq(items, 1, n - 1))
         IN  IF PyIn(items[n], before) THEN before ELSE before \cup {items[n]}

RECURSIVE PyDictOf(_)
\* The items of the dict built from <<key, value>> pairs in order: a later pair
\* with an equal key replaces the value and keeps the earlier key.
PyDictOf(pairs) ==
    IF pairs = <<>> THEN {}
    ELSE LET n == Len(pairs)
             before == PyDictOf(SubSeq(pairs, 1, n - 1))
             k == pairs[n][1]
             same == {e \in before : HashKey(e[1]) = HashKey(k) /\ (e[1] = k \/ PyEq(e[1], k))}
         IN  IF same = {} THEN before \cup {pairs[n]}
             ELSE (before \ same) \cup {<<e[1], pairs[n][2]>> : e \in same}

\* d[key] of a wire dict with str keys; Missing when the key is absent.
Missing == <<"missing">>

DictGet(d, key) ==
    IF \E e \in d[2] : e[1] = key THEN (CHOOSE e \in d[2] : e[1] = key)[2] ELSE Missing

\* s.partition(":"): the tokens before and after the first ":".
Partition(toks) ==
    IF \E i \in DOMAIN toks : toks[i] = ":"
    THEN LET i == CHOOSE j \in DOMAIN toks : toks[j] = ":" /\ \A k \in 1..(j - 1) : toks[k] # ":"
         IN  [head |-> SubSeq(toks, 1, i - 1), tail |-> SubSeq(toks, i + 1, Len(toks))]
    ELSE [head |-> toks, tail |-> <<>>]

\* ------------------------------------------------------------------- state

VARIABLES phase, files, names, balloons, types, last

vars == <<phase, files, names, balloons, types, last>>

\* "closed" is the ClosedBalloonWorld the open world is built over (its baseline),
\* "open" the OpenBalloonWorld; the baseline of "closed" is the world of create(),
\* whose providers are all empty ("empty").
Worlds == {"closed", "open"}

BaselineOf(w) == IF w = "open" THEN "closed" ELSE "empty"

\* The result of a call: the state it leaves, "ok" or the error raised, the value.
Ok(st, val) == [st |-> st, err |-> "ok", val |-> val]

Fail(st, err) == [st |-> st, err |-> err, val |-> PyNone]

\* A call followed by the rest of the function body: when the call raised, the
\* exception propagates, else the rest K runs on the result of the call.
Then(r, K(_)) == IF r.err # "ok" THEN r ELSE K(r)

\* --------------------------------------------------- BalloonDatabaseCache

CacheGetCachedNames(st, w, t) == DOMAIN st.balloons[w][t]

CacheGetAllNames(st, w, t) == st.names[w][t]

CacheGet(st, w, t, name) ==
    IF name \notin st.names[w][t] THEN Fail(st, "NotFound")
    ELSE IF name \notin DOMAIN st.balloons[w][t] THEN Fail(st, "KeyError")
    ELSE Ok(st, st.balloons[w][t][name])

\* A cache that puts what it is given in the cache of the closed world.
CacheTrackInBaseline(st, w, t, b) ==
    Ok([st EXCEPT !.names["closed"][t] = @ \cup {NameOf(b)},
                  !.balloons["closed"][t] = MapPut(@, NameOf(b), b)], PyNone)

CacheTrack(st, w, t, b) ==
    IF ClassOf(b) # NamedOf(t) THEN Fail(st, "CouldNotHandleType")
    ELSE IF NameOf(b) \in DOMAIN st.balloons[w][t] THEN Fail(st, "AlreadyInCache")
    ELSE Ok([st EXCEPT !.names[w][t] = @ \cup {NameOf(b)},
                       !.balloons[w][t] = MapPut(@, NameOf(b), b)], PyNone)

\* ------------------------------------- specialized provider and the inflator

RECURSIVE SpecGetNames(_, _, _)
\* get_names of world w's specialized provider of type t (of the empty provider
\* when w is "empty").
SpecGetNames(st, w, t) ==
    IF w = "empty" THEN {}
    ELSE CacheGetAllNames(st, w, t) \cup SpecGetNames(st, BaselineOf(w), t)

\* A provider and tracker that never consult the baseline.
InBaselineNever(st, w, t, name) == FALSE

\* name in self._baseline_provider.get_names(), of world w's provider of type t.
InBaseline(st, w, t, name) == name \in SpecGetNames(st, BaselineOf(w), t)

\* json.loads(json_path.read_text()) of <directory of w>/<t>/<name>.json
ReadJson(st, w, t, name) ==
    IF name \in DOMAIN st.files[w][t] THEN Ok(st, st.files[w][t][name]) ELSE Fail(st, "FileNotFound")

RECURSIVE Inflate(_, _, _, _)
RECURSIVE InflateList(_, _, _, _)
RECURSIVE InflateItems(_, _, _, _, _)
RECURSIVE InflateFields(_, _, _, _, _)
RECURSIVE InflateRef(_, _, _, _)
RECURSIVE InflateRecord(_, _, _, _, _)
RECURSIVE SpecGet(_, _, _, _)
RECURSIVE LoadStored(_, _, _, _)

\* [inflate(item, item_type) for item in deflated_value], in order.
InflateList(st, w, items, item_type) ==
    IF items = <<>> THEN Ok(st, <<>>)
    ELSE Then(Inflate(st, w, Head(items), item_type), LAMBDA h :
         Then(InflateList(h.st, w, Tail(items), item_type), LAMBDA r :
         Ok(r.st, <<h.val>> \o r.val)))

\* The <<inflate(key), inflate(value)>> pairs of the items of a wire dict; the
\* inflated key is hashed when the pair is stored.
InflateItems(st, w, items, key_type, value_type) ==
    IF items = <<>> THEN Ok(st, <<>>)
    ELSE Then(Inflate(st, w, Head(items)[1], key_type), LAMBDA k :
         Then(Inflate(k.st, w, Head(items)[2], value_type), LAMBDA v :
         IF ~Hashable(k.val) THEN Fail(v.st, "TypeError")
         ELSE Then(InflateItems(v.st, w, Tail(items), key_type, value_type), LAMBDA r :
              Ok(r.st, <<<<k.val, v.val>>>> \o r.val))))

\* {field_name: inflate(deflated_field, field_types[field_name]) for ...}: json is
\* a function from field names to wire values, field_names the order of its items.
InflateFields(st, w, json, field_names, field_types) ==
    IF field_names = <<>> THEN Ok(st, EmptyMap)
    ELSE IF Head(field_names) \notin DOMAIN field_types THEN Fail(st, "KeyError")
    ELSE Then(Inflate(st, w, json[Head(field_names)], field_types[Head(field_names)]), LAMBDA h :
         Then(InflateFields(h.st, w, json, Tail(field_names), field_types), LAMBDA r :
         Ok(r.st, MapPut(r.val, Head(field_names), h.val))))

\* self._types[type_name], for a type name that is a key of it.
TypeNamed(toks) == CHOOSE t \in Types : QualName(t) = toks

\* An inflator that does not compare the type of a reference with the static
\* type.
InflateRefUnchecked(st, w, p, static_class) ==
    IF \A t \in Types : QualName(t) # p.head THEN Fail(st, "KeyError")
    ELSE SpecGet(st, w, TypeNamed(p.head), p.tail)

\* The branch of inflate for a str: p is deflated_value.partition(":").
InflateRef(st, w, p, static_class) ==
    IF \A t \in Types : QualName(t) # p.head THEN Fail(st, "KeyError")
    ELSE IF ~IsSubclass(TypeNamed(p.head), static_class) THEN Fail(st, "AssertionError")
    ELSE SpecGet(st, w, TypeNamed(p.head), p.tail)

\* deflated_fields as a function from its keys, the field names.
FieldsJson(fs) == [f \in {e[1][2][1] : e \in fs[2]} |-> DictGet(fs, PyStr(<<f>>))]

\* type_(**inflated_fields): every field of the class must be given, and no other.
Construct(st, type_, oid, kwargs) ==
    IF DOMAIN kwargs # DOMAIN FieldTypes(type_) THEN Fail(st, "TypeError")
    ELSE Ok(st, Obj(type_, oid, kwargs))

\* The branch of inflate for a dict: tn is deflated_value["type"], fs is
\* deflated_value["fields"], Missing when the key is absent.
InflateRecord(st, w, tn, fs, static_class) ==
    IF tn = Missing THEN Fail(st, "KeyError")
    ELSE IF Kind(tn) # "str" \/ \A t \in Types : QualName(t) # tn[2] THEN Fail(st, "KeyError")
    ELSE IF ~IsSubclass(TypeNamed(tn[2]), static_class) THEN Fail(st, "AssertionError")
    ELSE IF fs = Missing THEN Fail(st, "KeyError")
    ELSE IF Kind(fs) # "dict" THEN Fail(st, "AttributeError")
    ELSE IF \E e \in fs[2] : Kind(e[1]) # "str" \/ Len(e[1][2]) # 1 THEN Fail(st, "KeyError")
    ELSE Then(InflateFields(st, w, FieldsJson(fs), SetToSeq(DOMAIN FieldsJson(fs)), FieldTypes(TypeNamed(tn[2]))),
              LAMBDA r : Construct(r.st, TypeNamed(tn[2]),
                                   IF IsNamedClass(TypeNamed(tn[2])) THEN <<"inflated", 0>> ELSE NoId, r.val))

\* Inflator.inflate of world w's inflator.
Inflate(st, w, d, static_type) ==
    CASE static_type[1] = "dict" ->
            IF Kind(d) # "dict" THEN Fail(st, "AssertionError")
            ELSE Then(InflateItems(st, w, SetToSeq(d[2]), static_type[2], static_type[3]),
                      LAMBDA r : Ok(r.st, PyDict(PyDictOf(r.val))))
      [] static_type[1] = "tuple" ->
            IF Kind(d) # "list" THEN Fail(st, "AssertionError")
            ELSE Then(InflateList(st, w, d[2], static_type[2]), LAMBDA r : Ok(r.st, PyTuple(r.val)))
      [] static_type[1] = "set" ->
            IF Kind(d) # "list" THEN Fail(st, "AssertionError")
            ELSE Then(InflateList(st, w, d[2], static_type[2]), LAMBDA r :
                 IF \E i \in DOMAIN r.val : ~Hashable(r.val[i]) THEN Fail(r.st, "TypeError")
                 ELSE Ok(r.st, PySet(PySetOf(r.val))))
      [] static_type[1] = "union" ->
            IF d = PyNone THEN Ok(st, PyNone) ELSE Inflate(st, w, d, static_type[2])
      [] static_type[1] = "class" ->
            IF Kind(d) = "str" THEN InflateRef(st, w, Partition(d[2]), static_type[2])
            ELSE IF Kind(d) = "dict"
                 THEN InflateRecord(st, w, DictGet(d, PyStr(<<"type">>)), DictGet(d, PyStr(<<"fields">>)),
                                    static_type[2])
            ELSE Fail(st, "UnsupportedValue")
      [] static_type[1] = "enumclass" ->
            IF Kind(d) # "str" THEN Fail(st, "AssertionError")
            ELSE IF Len(d[2]) # 1 \/ d[2][1] \notin EnumMembers(static_type[2]) THEN Fail(st, "KeyError")
            ELSE Ok(st, PyEnum(static_type[2], d[2][1]))
      [] static_type[1] = "atomic" ->
            IF Kind(d) # static_type[2] THEN Fail(st, "AssertionError") ELSE Ok(st, d)
      [] OTHER -> Fail(st, "UnsupportedValue")

\* {"name": name} | {inflated fields}: a "name" among the fields of the file wins.
WithName(fields, name) == IF "name" \in DOMAIN fields THEN fields ELSE MapPut(fields, "name", PyStr(name))

\* The balloon that world w's provider (get) or tracker (track) of type t builds
\* from the file of `name`: the json is read, each field inflated, and
\* self._type(name=name, **fields) constructed.
LoadStored(st, w, t, name) ==
    Then(ReadJson(st, w, t, name), LAMBDA j :
    Then(InflateFields(st, w, j.val, SetToSeq(DOMAIN j.val), FieldTypes(NamedOf(t))), LAMBDA r :
    Construct(r.st, NamedOf(t), LoadedId(w), WithName(r.val, name))))

\* A provider that builds the instance from the file at each get of a name the
\* cache has not materialized, and does not put it in the cache.
SpecGetUncached(st, w, t, name) ==
    IF w = "empty" THEN Fail(st, "NotFound")
    ELSE IF InBaseline(st, w, t, name) THEN SpecGet(st, BaselineOf(w), t, name)
    ELSE IF name \in CacheGetCachedNames(st, w, t) THEN CacheGet(st, w, t, name)
    ELSE IF name \notin CacheGetAllNames(st, w, t) THEN Fail(st, "NotFound")
    ELSE LoadStored(st, w, t, name)

\* StandardSpecializedBalloonProvider.get of world w's provider of type t
\* (EmptySpecializedBalloonProvider.get when w is "empty").
SpecGet(st, w, t, name) ==
    IF w = "empty" THEN Fail(st, "NotFound")
    ELSE IF InBaseline(st, w, t, name) THEN SpecGet(st, BaselineOf(w), t, name)
    ELSE IF name \in CacheGetCachedNames(st, w, t) THEN CacheGet(st, w, t, name)
    ELSE IF name \notin CacheGetAllNames(st, w, t) THEN Fail(st, "NotFound")
    ELSE Then(LoadStored(st, w, t, name), LAMBDA b :
         Then(CacheTrack(b.st, w, t, b.val), LAMBDA c : Ok(c.st, b.val)))

\* ---------------------------------------------------------------- deflator

RECURSIVE Deflate(_, _, _)
RECURSIVE DeflateList(_, _, _)
RECURSIVE DeflateItems(_, _, _)

\* [deflate(item) for item in items], in order.
DeflateList(st, w, items) ==
    IF items = <<>> THEN Ok(st, <<>>)
    ELSE Then(Deflate(st, w, Head(items)), LAMBDA h :
         Then(DeflateList(h.st, w, Tail(items)), LAMBDA r :
         Ok(r.st, <<h.val>> \o r.val)))

\* {deflate(key): deflate(value) for key, value in items}: the deflated key is
\* hashed when the pair is stored.
DeflateItems(st, w, items) ==
    IF items = <<>> THEN Ok(st, <<>>)
    ELSE Then(Deflate(st, w, Head(items)[1]), LAMBDA k :
         Then(Deflate(k.st, w, Head(items)[2]), LAMBDA v :
         IF ~Hashable(k.val) THEN Fail(v.st, "TypeError")
         ELSE Then(DeflateItems(v.st, w, Tail(items)), LAMBDA r :
              Ok(r.st, <<<<k.val, v.val>>>> \o r.val))))

\* A reference string without the type.
RefStringBare(t, name) == PyStr(name)

\* A reference string that names another value than the one deflated.
RefStringElsewhere(t, name) == PyStr(QualName(t) \o <<":">> \o name \o name)

\* The reference string f"{type_.__qualname__}:{name}".
RefString(t, name) == PyStr(QualName(t) \o <<":">> \o name)

\* The values of the fields of an instance, in the order of its fields.
FieldValues(v) == [i \in DOMAIN FieldOrder(ClassOf(v)) |-> FieldsOf(v)[FieldOrder(ClassOf(v))[i]]]

\* {"type": <qualname>, "fields": {<field name>: <deflated field>, ...}}
Tagged(c, deflated) ==
    PyDict({<<PyStr(<<"type">>), PyStr(QualName(c))>>,
            <<PyStr(<<"fields">>), PyDict({<<PyStr(<<FieldOrder(c)[i]>>), deflated[i]>> : i \in DOMAIN FieldOrder(c)})>>})

\* A deflator that writes the reference string of a named value without asking
\* the provider for the name.
DeflateUnchecked(st, w, v) ==
    IF IsNamed(v) THEN Ok(st, RefString(BaseOf(ClassOf(v)), NameOf(v))) ELSE Fail(st, "UnsupportedValue")

\* Deflator.deflate of world w's deflator.
Deflate(st, w, v) ==
    CASE IsNamed(v) ->
            IF BaseOf(ClassOf(v)) \notin Types THEN Fail(st, "KeyError")
            ELSE IF NameOf(v) \notin SpecGetNames(st, w, BaseOf(ClassOf(v))) THEN Fail(st, "NotFound")
            ELSE Then(SpecGet(st, w, BaseOf(ClassOf(v)), NameOf(v)), LAMBDA r :
                 IF v # r.val THEN Fail(r.st, "TwoSameName")
                 ELSE Ok(r.st, RefString(BaseOf(ClassOf(v)), NameOf(v))))
      [] Kind(v) = "obj" /\ ~IsNamedClass(ClassOf(v)) ->
            Then(DeflateList(st, w, FieldValues(v)), LAMBDA r : Ok(r.st, Tagged(ClassOf(v), r.val)))
      [] Kind(v) = "dict" ->
            Then(DeflateItems(st, w, SetToSeq(v[2])), LAMBDA r : Ok(r.st, PyDict(PyDictOf(r.val))))
      [] Kind(v) \in {"set", "tuple"} ->
            Then(DeflateList(st, w, IF Kind(v) = "set" THEN SetToSeq(v[2]) ELSE v[2]),
                 LAMBDA r : Ok(r.st, PyList(r.val)))
      [] Kind(v) = "enum" -> Ok(st, PyStr(<<v[3]>>))
      [] Kind(v) \in {"int", "str"} -> Ok(st, v)
      [] Kind(v) = "none" -> Ok(st, v)
      [] OTHER -> Fail(st, "UnsupportedValue")

\* ------------------------------------------------------ DynamicTypeManager

\* self._name_to_dynamic_types[name] of world w's manager (a defaultdict(set)).
Claimed(st, w, name) == IF name \in DOMAIN st.types[w] THEN st.types[w][name] ELSE {}

\* No type: the None that get returns.
NoType == "None"

\* A resolver that knows no name.
DynGetNothing(st, w, name, static_type) == Ok(st, NoType)

\* A resolver that returns a type recorded for the name whether or not it is a
\* subtype of the requested type.
DynGetUnfiltered(st, w, name, static_type) ==
    IF w = "empty" \/ Claimed(st, w, name) = {} THEN Ok(st, NoType)
    ELSE Ok(st, CHOOSE t \in Claimed(st, w, name) : TRUE)

RECURSIVE DynGet(_, _, _, _)
\* DynamicTypeManager.get of world w's manager (EmptyDynamicTypeProvider.get when
\* w is "empty").
DynGet(st, w, name, static_type) ==
    IF w = "empty" THEN Ok(st, NoType)
    ELSE IF \A n \in NamespaceTypes : ~IsSubclass(static_type, n) THEN Fail(st, "UnsupportedNamespace")
    ELSE LET candidate_dynamic_types == {t \in Claimed(st, w, name) : IsSubclass(t, static_type)}
         IN  IF candidate_dynamic_types = {} THEN DynGet(st, BaselineOf(w), name, static_type)
             ELSE IF Cardinality(candidate_dynamic_types) > 1 THEN Fail(st, "MultipleBalloons")
             ELSE Ok(st, CHOOSE t \in candidate_dynamic_types : TRUE)

\* A check that finds every namespace free.
NamespaceCheckSkipped(st, w, name, dynamic_type) == "ok"

\* The error of the loop over the namespaces of dynamic_type in track: "ok" when
\* no namespace of dynamic_type has a type that already owns the name.
NamespaceCheck(st, w, name, dynamic_type) ==
    LET spaces == {n \in NamespaceTypes : IsSubclass(dynamic_type, n)}
    IN  IF \E n \in spaces : DynGet(st, w, name, n).err = "ok" /\ DynGet(st, w, name, n).val # NoType
        THEN "NamespaceConflict"
        ELSE IF \E n \in spaces : DynGet(st, w, name, n).err # "ok" THEN "MultipleBalloons"
        ELSE "ok"

\* A manager that records every association it is given.
DynTrackUnchecked(st, w, name, dynamic_type) ==
    Ok([st EXCEPT !.types[w] = MapPut(@, name, Claimed(st, w, name) \cup {dynamic_type})], PyNone)

\* DynamicTypeManager.track of world w's manager.
DynTrack(st, w, name, dynamic_type) ==
    Then(DynGet(st, w, name, dynamic_type), LAMBDA g :
    IF g.val = dynamic_type THEN Ok(st, PyNone)
    ELSE IF NamespaceCheck(st, w, name, dynamic_type) # "ok"
         THEN Fail(st, NamespaceCheck(st, w, name, dynamic_type))
    ELSE Ok([st EXCEPT !.types[w] = MapPut(@, name, Claimed(st, w, name) \cup {dynamic_type})], PyNone))

\* ------------------------------------------------ SpecializedBalloonTracker

RECURSIVE Json(_)
\* json.loads(json.dumps(v)): what a file gives back of the value written to it.
\* A list stays a list, the keys of an object become strings.
Json(v) ==
    CASE Kind(v) = "list" -> PyList([i \in DOMAIN v[2] |-> Json(v[2][i])])
      [] Kind(v) = "dict" ->
            PyDict({<<CASE Kind(e[1]) = "int" -> PyStr(<<ToString(e[1][2])>>)
                        [] Kind(e[1]) = "none" -> PyStr(<<"null">>)
                        [] OTHER -> e[1],
                      Json(e[2])>> : e \in v[2]})
      [] OTHER -> v

RECURSIVE SpecTrack(_, _, _)
RECURSIVE TrackField(_, _)
RECURSIVE TrackFields(_, _)

\* for field in fields: self._track_field(field), over a sequence of values.
TrackFields(st, fields) ==
    IF fields = <<>> THEN Ok(st, PyNone)
    ELSE Then(TrackField(st, Head(fields)), LAMBDA h : TrackFields(h.st, Tail(fields)))

\* SpecializedBalloonTracker._track_field: self._trackers is keyed by the managed
\* (base) classes and is looked up with type(field).  The last isinstance is given
\* the tuple (Enum, Atomic, None): it raises TypeError for a field that is neither
\* an enum member nor an atomic, None included.
TrackField(st, field) ==
    CASE IsNamed(field) ->
            IF ClassOf(field) \notin Types THEN Fail(st, "KeyError")
            ELSE SpecTrack(st, ClassOf(field), field)
      [] Kind(field) = "obj" /\ ~IsNamedClass(ClassOf(field)) ->
            TrackFields(st, FieldValues(field))
      [] Kind(field) = "dict" ->
            TrackFields(st, SetToSeq({e[1] : e \in field[2]} \cup {e[2] : e \in field[2]}))
      [] Kind(field) \in {"set", "tuple"} ->
            TrackFields(st, IF Kind(field) = "set" THEN SetToSeq(field[2]) ELSE field[2])
      [] Kind(field) \in {"enum", "int", "str"} -> Ok(st, PyNone)
      [] OTHER -> Fail(st, "TypeError")

\* The field names of a balloon with "name" among them.
AllFieldNames(b) == FieldOrder(ClassOf(b))

\* The payload field names of a balloon: balloon.__dict__ without "name".
PayloadNames(b) == SelectSeq(FieldOrder(ClassOf(b)), LAMBDA f : f # "name")

\* What `for field in fields` iterates in track: `fields` is a dict, so the loop
\* variable is each key of it, a field name.
TrackedFields(b) == [i \in DOMAIN PayloadNames(b) |-> PyStr(<<PayloadNames(b)[i]>>)]

\* A tracker that never looks at the names of the directory.
KnownOnDiskNever(st, t, name) == FALSE

\* balloon.name in self._cache.get_all_names(): the name has a file in the
\* directory of the open world.
KnownOnDisk(st, t, name) == name \in CacheGetAllNames(st, "open", t)

\* An identity test that recognises no instance.
SameObjectNever(b, other) == FALSE

\* balloon is other
SameObject(b, other) == b = other

\* The values of the payload fields of a balloon, in the order of its fields.
PayloadValues(b) == [i \in DOMAIN PayloadNames(b) |-> FieldsOf(b)[PayloadNames(b)[i]]]

\* json.loads of the text written for a balloon: its payload field names with
\* the deflated values.
PayloadJson(b, deflated) ==
    [f \in {PayloadNames(b)[i] : i \in DOMAIN PayloadNames(b)} |->
        Json(deflated[CHOOSE i \in DOMAIN PayloadNames(b) : PayloadNames(b)[i] = f])]

\* A tracker whose write leaves the directory as it was.
WriteNowhere(st, t, name, json_) == st

\* json_path.write_text(...) in the directory of the open world.
WriteJson(st, t, name, json_) == [st EXCEPT !.files["open"][t] = MapPut(@, name, json_)]

\* A tracker that creates the file of the balloon before its fields are tracked
\* and deflated.
TrackNewWriteFirst(st, t, b) ==
    Then(TrackFields(WriteJson(st, t, NameOf(b), EmptyMap), TrackedFields(b)), LAMBDA tf :
    Then(DeflateList(tf.st, "open", PayloadValues(b)), LAMBDA d :
    CacheTrack(WriteJson(d.st, t, NameOf(b), PayloadJson(b, d.val)), "open", t, b)))

\* The last part of track, for a name that is not known: the fields are tracked
\* and deflated, the file is written, the balloon is cached.
TrackNew(st, t, b) ==
    Then(TrackFields(st, TrackedFields(b)), LAMBDA tf :
    Then(DeflateList(tf.st, "open", PayloadValues(b)), LAMBDA d :
    CacheTrack(WriteJson(d.st, t, NameOf(b), PayloadJson(b, d.val)), "open", t, b)))

\* The outcome of a comparison of the balloon with the held one.
SameOrFail(same, st) == IF same THEN Ok(st, PyNone) ELSE Fail(st, "TwoInMemory")

\* SpecializedBalloonTracker.track of the open world's tracker of type t.
SpecTrack(st, t, b) ==
    IF ClassOf(b) # NamedOf(t) THEN Fail(st, "CouldNotHandleType")
    ELSE IF InBaseline(st, "open", t, NameOf(b)) THEN
        Then(SpecGet(st, BaselineOf("open"), t, NameOf(b)), LAMBDA r : SameOrFail(SameObject(b, r.val), r.st))
    ELSE IF NameOf(b) \in CacheGetCachedNames(st, "open", t) THEN
        Then(CacheGet(st, "open", t, NameOf(b)), LAMBDA r : SameOrFail(SameObject(b, r.val), r.st))
    ELSE IF KnownOnDisk(st, t, NameOf(b)) THEN
        Then(LoadStored(st, "open", t, NameOf(b)), LAMBDA r :
        IF PyEq(b, r.val) THEN CacheTrack(r.st, "open", t, b) ELSE Fail(r.st, "StoredConflict"))
    ELSE TrackNew(st, t, b)

\* ------------------------------------------- polymorphic provider and tracker

\* get_provider / get_tracker / get_manager: the check that the requested type is
\* inside a namespace.
Supported(type_) == \E n \in NamespaceTypes : IsSubclass(type_, n)

\* A scope of every managed type, whatever the requested type.
ScopeAll(type_) == Types

\* The specialized providers (or trackers) a wrapper for type_ is given.
Scope(type_) == {t \in Types : IsSubclass(t, type_)}

\* A polymorphic wrapper: the type it was requested for and the managed types
\* whose specialized providers (or trackers) it was given.
Wrapper(type_) == [type_ |-> type_, scope |-> Scope(type_)]

\* world.get_provider(type_), of the closed or of the open world.
GetProvider(st, w, type_) ==
    IF ~Supported(type_) THEN Fail(st, "UnsupportedType") ELSE Ok(st, Wrapper(type_))

\* open.get_tracker(type_)
GetTracker(st, type_) ==
    IF ~Supported(type_) THEN Fail(st, "UnsupportedType") ELSE Ok(st, Wrapper(type_))

\* open.get_manager(type_): the provider and the tracker for type_, in that order.
GetManager(st, type_) ==
    Then(GetProvider(st, "open", type_), LAMBDA p :
    Then(GetTracker(p.st, type_), LAMBDA t :
    Ok(t.st, [type_ |-> type_, provider |-> p.val, tracker |-> t.val])))

\* A provider that looks the name up under the requested type instead of the
\* type the resolver returns.
PolyGetByStaticType(st, w, type_, name) ==
    IF type_ \notin Types THEN Fail(st, "KeyError") ELSE SpecGet(st, w, type_, name)

\* StandardBalloonProvider.get of world w's provider for type_.
PolyGet(st, w, type_, name) ==
    Then(DynGet(st, w, name, type_), LAMBDA d :
    IF d.val = NoType THEN Fail(st, "NotFound")
    ELSE IF d.val \notin Scope(type_) THEN Fail(st, "KeyError")
    ELSE SpecGet(st, w, d.val, name))

\* A provider that lists the names of every managed type.
PolyGetNamesUnscoped(st, w, type_) == UNION {SpecGetNames(st, w, t) : t \in Types}

\* StandardBalloonProvider.get_names of world w's provider for type_.
PolyGetNames(st, w, type_) == UNION {SpecGetNames(st, w, t) : t \in Scope(type_)}

\* A tracker that takes a value that is not named for tracked.
PolyTrackLenient(st, type_, b) ==
    IF ~IsNamed(b) THEN Ok(st, PyNone)
    ELSE Then(DynTrack(st, "open", NameOf(b), BaseOf(ClassOf(b))), LAMBDA d :
         IF BaseOf(ClassOf(b)) \notin Scope(type_) THEN Fail(d.st, "KeyError")
         ELSE SpecTrack(d.st, BaseOf(ClassOf(b)), b))

\* StandardBalloonTracker.track of the open world's tracker for type_.
PolyTrack(st, type_, b) ==
    IF ~IsNamed(b) THEN Fail(st, "NotNamed")
    ELSE Then(DynTrack(st, "open", NameOf(b), BaseOf(ClassOf(b))), LAMBDA d :
         IF BaseOf(ClassOf(b)) \notin Scope(type_) THEN Fail(d.st, "KeyError")
         ELSE SpecTrack(d.st, BaseOf(ClassOf(b)), b))

\* -------------------------------------------------------------- Balloonist

\* Balloonist.deflate of a balloonist for type_ over world w's deflator.
BalloonistDeflate(st, w, type_, v) ==
    IF Kind(v) # "obj" \/ ~IsSubclass(ClassOf(v), type_) THEN Fail(st, "CouldNotHandleType")
    ELSE Deflate(st, w, v)

\* Balloonist.inflate of a balloonist for type_ over world w's inflator.
BalloonistInflate(st, w, type_, d) == Inflate(st, w, d, TClass(type_))

\* ------------------------------------------------------- world construction

\* A construction that records no name in the resolver.
TrackAllNone(st, w, pairs) == Ok(st, PyNone)

RECURSIVE TrackAll(_, _, _)
\* for type_, provider in providers.items(): for name in provider.get_names():
\*     dynamic_type_manager.track(name, type_)
TrackAll(st, w, pairs) ==
    IF pairs = <<>> THEN Ok(st, PyNone)
    ELSE Then(DynTrack(st, w, Head(pairs)[2], Head(pairs)[1]), LAMBDA h : TrackAll(h.st, w, Tail(pairs)))

\* names = {p.stem for p in jsons_path.iterdir()}, for the cache of each type.
Listed(st, w) == [st EXCEPT !.names[w] = [t \in Types |-> DOMAIN st.files[w][t]]]

\* populate (w = "closed") and to_open (w = "open"): each cache is seeded with the
\* stems of the files of its directory, then every name of every provider is
\* tracked in a new DynamicTypeManager.
BuildWorld(st, w) == TrackAll(Listed(st, w), w, SetToSeq(UNION {{<<t, n>> : n \in SpecGetNames(Listed(st, w), w, t)} : t \in Types}))

\* ------------------------------------------------------------------ inputs

\* Names of dogs, of birds and of owners.
Names == {<<"a">>, <<"b">>}

BirdNames == {<<"a">>}

OwnerNames == {<<"o">>}

DogNamed(n, x, k) == Obj("Dog.Named", NewId(k), [name |-> PyStr(n), obedience |-> PyInt(x)])

\* The named instances the caller constructs: of the dog "a" up to NumInstances
\* instances for each obedience, of the dog "b" one instance, of each bird one for
\* each song, and owners of no pet, of a dog "a", of the dog "b" and of an
\* anonymous dog.
Dogs == {DogNamed(<<"a">>, x, k) : x \in Atoms, k \in 1..NumInstances} \cup {DogNamed(<<"b">>, 1, 1)}

Birds == {Obj("Bird", NewId(1), [name |-> PyStr(n), song |-> PyInt(x)]) : n \in BirdNames, x \in Atoms}

AnonDog(x) == Obj("Dog", NoId, [obedience |-> PyInt(x)])

AnonDogs == {AnonDog(x) : x \in Atoms}

Pets == {PyNone, AnonDog(1), DogNamed(<<"b">>, 1, 1)} \cup
        {DogNamed(<<"a">>, x, 1) : x \in Atoms}

Owners == {Obj("Owner.Named", NewId(1), [name |-> PyStr(n), pet |-> p]) : n \in OwnerNames, p \in Pets}

Pool == Dogs \cup Birds \cup Owners

AnonOwners == {Obj("Owner", NoId, [pet |-> p]) : p \in Pets \cup Birds}

Kennel(dogs, flock, moods) ==
    Obj("Kennel", NoId, [dogs |-> PyTuple(dogs), flock |-> PySet(flock), moods |-> PyDict(moods)])

\* Kennels: an empty one, and for each dog and each bird of the caller one that
\* holds it in its sequence, its set and as a key of its mapping, next to an
\* anonymous dog and a second named animal.
Kennels ==
    {Kennel(<<>>, {}, {})} \cup
    {Kennel(<<d, a>>, {d, a}, {<<d, PyEnum("Mood", "CALM")>>}) : d \in Dogs \cup Birds, a \in AnonDogs} \cup
    {Kennel(<<d, e>>, {d, e}, {<<d, PyEnum("Mood", "CALM")>>, <<e, PyEnum("Mood", "WILD")>>}) :
        d \in {x \in Dogs : NameOf(x) = <<"a">>}, e \in {x \in Dogs : NameOf(x) = <<"b">>}}

\* Kennels whose mapping has an anonymous dog as a key.
AnonKeyKennels == {Kennel(<<>>, {}, {<<a, PyEnum("Mood", "WILD")>>}) : a \in AnonDogs}

\* The values given to a tracker: the named values of the caller and the
\* anonymous dogs.
TrackPool == Pool \cup AnonDogs

\* The values of the codec.
CodecPool == Pool \cup AnonDogs \cup AnonOwners \cup Kennels \cup AnonKeyKennels

\* The values given to a balloonist to deflate: the dogs "a" and the anonymous
\* dogs, and owners and kennels of the first dog "a".
DeflatePool ==
    {v \in Dogs : NameOf(v) = <<"a">>} \cup AnonDogs \cup
    {Obj("Owner", NoId, [pet |-> p]) : p \in {PyNone, DogNamed(<<"a">>, 1, 1)}} \cup
    {Kennel(<<DogNamed(<<"a">>, 1, 1), AnonDog(1)>>, {DogNamed(<<"a">>, 1, 1), AnonDog(1)},
            {<<DogNamed(<<"a">>, 1, 1), PyEnum("Mood", "CALM")>>}),
     Kennel(<<>>, {}, {<<AnonDog(1), PyEnum("Mood", "WILD")>>})}

\* The wire values given to a balloonist to inflate.
Wires ==
    {RefString("Dog", n) : n \in Names} \cup {RefString("Bird", n) : n \in BirdNames} \cup
    {RefString("Owner", n) : n \in OwnerNames} \cup
    {PyDict({<<PyStr(<<"type">>), PyStr(QualName("Dog"))>>,
             <<PyStr(<<"fields">>), PyDict({<<PyStr(<<"obedience">>), PyInt(x)>>})>>}) : x \in Atoms}

\* The reference string "<type name>:<name>".
RefWire(h, n) == PyStr(<<h, ":">> \o n)

\* The fields of a tagged object of the type named h: of a dog and of an owner
\* the fields of the class, of any other type none.
TaggedFields(h) ==
    CASE h = "Dog" -> {<<PyStr(<<"obedience">>), PyInt(1)>>}
      [] h = "Owner" -> {<<PyStr(<<"pet">>), PyNone>>}
      [] OTHER -> {}

\* The tagged object {"type": h, "fields": {...}}.
TaggedWire(h) ==
    PyDict({<<PyStr(<<"type">>), PyStr(<<h>>)>>, <<PyStr(<<"fields">>), PyDict(TaggedFields(h))>>})

\* Wire values of a type that is not managed, "Cat", and a tagged owner.
BadWires == {RefWire("Cat", <<"a">>), TaggedWire("Cat"), TaggedWire("Owner")}

\* The types a balloonist is made for.
BalloonistTypes == {"Animal", "Balloon"}

\* A directory: for each managed type, the json of each file <type>/<name>.json;
\* no directory has a file of a kennel.
Dir(dog, bird, owner) ==
    [t \in Types |-> CASE t = "Dog" -> dog [] t = "Bird" -> bird [] t = "Owner" -> owner [] OTHER -> EmptyMap]

DogJson(x) == [obedience |-> PyInt(x)]

BirdJson(x) == [song |-> PyInt(x)]

OwnerJson(ref) == [pet |-> ref]

NoFiles == Dir(EmptyMap, EmptyMap, EmptyMap)

OneFile(name, json) == MapPut(EmptyMap, name, json)

\* The directories given to populate and to to_open, in that order:
\*  - both empty;
\*  - a dog in each, of the same name and different content;
\*  - a dog, and a bird of the dog's name;
\*  - a dog and a bird of one name, and an empty directory;
\*  - an empty directory, and a dog with an owner that refers to it;
\*  - a dog and an owner of one name (Owner and Animal are two namespaces), and
\*    an empty directory.
Directories ==
    { <<NoFiles, NoFiles>>,
      <<Dir(OneFile(<<"a">>, DogJson(1)), EmptyMap, EmptyMap), Dir(OneFile(<<"a">>, DogJson(2)), EmptyMap, EmptyMap)>>,
      <<Dir(OneFile(<<"a">>, DogJson(1)), EmptyMap, EmptyMap), Dir(EmptyMap, OneFile(<<"a">>, BirdJson(1)), EmptyMap)>>,
      <<Dir(OneFile(<<"a">>, DogJson(1)), OneFile(<<"a">>, BirdJson(1)), EmptyMap), NoFiles>>,
      <<NoFiles, Dir(OneFile(<<"a">>, DogJson(1)), EmptyMap, OneFile(<<"o">>, OwnerJson(RefString("Dog", <<"a">>))))>>,
      <<Dir(OneFile(<<"a">>, DogJson(1)), EmptyMap, OneFile(<<"a">>, OwnerJson(PyNone))), NoFiles>> }

\* --------------------------------------------------------------- behaviour

State == [files |-> files, names |-> names, balloons |-> balloons, types |-> types]

\* The variables after a call with result r; `last` records the call and how it
\* ended.
Becomes(r, op) ==
    /\ files' = r.st.files
    /\ names' = r.st.names
    /\ balloons' = r.st.balloons
    /\ types' = r.st.types
    /\ last' = [op |-> op, err |-> r.err]

\* create(namespace_types, types_), with the two directories the worlds will be
\* built on.
Init ==
    /\ phase = "created"
    /\ \E d \in Directories : files = [w \in Worlds |-> IF w = "closed" THEN d[1] ELSE d[2]]
    /\ names = [w \in Worlds |-> [t \in Types |-> {}]]
    /\ balloons = [w \in Worlds |-> [t \in Types |-> EmptyMap]]
    /\ types = [w \in Worlds |-> EmptyMap]
    /\ last = [op |-> "create", err |-> "ok"]

\* The end of a construction with result r: world w exists when it succeeded, and
\* nothing is kept of it when it failed.
Constructs(r, w, op) ==
    /\ phase' = IF r.err = "ok" THEN w ELSE "failed"
    /\ Becomes(IF r.err = "ok" THEN r ELSE Fail(State, r.err), op)

\* closed = create(...).populate(directory): a failed call returns no world.
Populate ==
    /\ phase = "created"
    /\ Constructs(BuildWorld(State, "closed"), "closed", "populate")

\* open = closed.to_open(directory)
ToOpen ==
    /\ phase = "closed"
    /\ Constructs(BuildWorld(State, "open"), "open", "to_open")

\* The worlds that exist.
Built(w) == IF w = "closed" THEN phase \in {"closed", "open"} ELSE phase = "open"

\* world.get_provider(type_).get(name), from state st.
GetCall(st, w, type_, name) ==
    IF Supported(type_) THEN PolyGet(st, w, type_, name) ELSE Fail(st, "UnsupportedType")

\* open.get_tracker(type_).track(b), from state st.
TrackCall(st, type_, b) ==
    IF Supported(type_) THEN PolyTrack(st, type_, b) ELSE Fail(st, "UnsupportedType")

Get(w, type_, name) ==
    /\ Built(w)
    /\ UNCHANGED phase
    /\ Becomes(GetCall(State, w, type_, name), "get")

Track(type_, b) ==
    /\ phase = "open"
    /\ UNCHANGED phase
    /\ Becomes(TrackCall(State, type_, b), "track")

\* Balloonist(type_, inflator, deflator).deflate(v), over the codec of world w.
DeflateCall(w, type_, v) ==
    /\ Built(w)
    /\ UNCHANGED phase
    /\ Becomes(BalloonistDeflate(State, w, type_, v), "deflate")

\* Balloonist(type_, inflator, deflator).inflate(d), over the codec of world w.
InflateCall(w, type_, d) ==
    /\ Built(w)
    /\ UNCHANGED phase
    /\ Becomes(BalloonistInflate(State, w, type_, d), "inflate")

\* open.get_manager(type_)
GetManagerCall(type_) ==
    /\ phase = "open"
    /\ UNCHANGED phase
    /\ Becomes(GetManager(State, type_), "get_manager")

Next ==
    \/ Populate
    \/ ToOpen
    \/ \E w \in Worlds, type_ \in RequestTypes, name \in Names \cup OwnerNames : Get(w, type_, name)
    \/ \E type_ \in RequestTypes, b \in TrackPool : Track(type_, b)
    \/ \E w \in Worlds, type_ \in BalloonistTypes, v \in DeflatePool : DeflateCall(w, type_, v)
    \/ \E w \in Worlds, type_ \in BalloonistTypes, d \in Wires \cup BadWires : InflateCall(w, type_, d)
    \/ \E type_ \in RequestTypes : GetManagerCall(type_)

Spec == Init /\ [][Next]_vars

\* The comparison of two named values that the caller constructs, before any
\* world exists: `last` holds the two values and then the result of a == b.
InitEq ==
    /\ phase = "values"
    /\ files = [w \in Worlds |-> NoFiles]
    /\ names = [w \in Worlds |-> [t \in Types |-> {}]]
    /\ balloons = [w \in Worlds |-> [t \in Types |-> EmptyMap]]
    /\ types = [w \in Worlds |-> EmptyMap]
    /\ \E a \in Pool, b \in Pool : last = [op |-> "new", err |-> "ok", a |-> a, b |-> b, val |-> FALSE]

\* a == b
Compare ==
    /\ last.op = "new"
    /\ last' = [last EXCEPT !.op = "eq", !.val = PyEq(last.a, last.b)]
    /\ UNCHANGED <<phase, files, names, balloons, types>>

NextEq == Compare

SpecEq == InitEq /\ [][NextEq]_vars

\* -------------------------------------------------- the references of a file

RECURSIVE Refs(_)
\* The named values a value refers to; a named value refers to itself.
Refs(v) ==
    CASE IsNamed(v) -> {v}
      [] Kind(v) = "obj" -> UNION {Refs(FieldsOf(v)[f]) : f \in DOMAIN FieldsOf(v)}
      [] Kind(v) = "tuple" -> UNION {Refs(v[2][i]) : i \in DOMAIN v[2]}
      [] Kind(v) = "set" -> UNION {Refs(e) : e \in v[2]}
      [] Kind(v) = "dict" -> UNION {Refs(e[1]) \cup Refs(e[2]) : e \in v[2]}
      [] OTHER -> {}

RECURSIVE StoredRefs(_)
\* The reference strings in a wire value, each as its partition at the first ":".
StoredRefs(d) ==
    CASE Kind(d) = "str" -> IF \E i \in DOMAIN d[2] : d[2][i] = ":" THEN {Partition(d[2])} ELSE {}
      [] Kind(d) = "list" -> UNION {StoredRefs(d[2][i]) : i \in DOMAIN d[2]}
      [] Kind(d) = "dict" -> UNION {StoredRefs(e[1]) \cup StoredRefs(e[2]) : e \in d[2]}
      [] OTHER -> {}

\* The reference strings in the content of a file.
FileRefs(json_) == UNION {StoredRefs(json_[f]) : f \in DOMAIN json_}

\* ------------------------------------------------- the reads of the files

\* A file is <<world, type, name>>: <directory of the world>/<type>/<name>.json.

\* The types whose qualified name is the head of a reference string.
RefTypes(p) == {u \in Types : QualName(u) = p.head}

RECURSIVE Loads(_, _, _, _)
RECURSIVE StoredLoads(_, _, _, _)
\* The files that get(name) of world w's specialized provider of type t reads in
\* state st: the file of the name when no cache has materialized it, and the
\* files that the inflation of its references reads in turn.
Loads(st, w, t, name) ==
    IF w = "empty" THEN {}
    ELSE IF InBaseline(st, w, t, name) THEN Loads(st, BaselineOf(w), t, name)
    ELSE IF name \in CacheGetCachedNames(st, w, t) \/ name \notin CacheGetAllNames(st, w, t) THEN {}
    ELSE {<<w, t, name>>} \cup StoredLoads(st, w, t, name)

\* The files read when the fields of the file of `name` are inflated: a reference
\* string is resolved with get of the provider of its type.
StoredLoads(st, w, t, name) ==
    IF name \notin DOMAIN st.files[w][t] THEN {}
    ELSE UNION {UNION {Loads(st, w, u, p.tail) : u \in RefTypes(p)} : p \in FileRefs(st.files[w][t][name])}

\* The files that deflate(v) of world w's deflator reads: provider.get of each
\* named value in v whose name the provider lists (a value here has at most one).
DeflateLoads(st, w, v) ==
    UNION {IF BaseOf(ClassOf(x)) \in Types /\ NameOf(x) \in SpecGetNames(st, w, BaseOf(ClassOf(x)))
           THEN Loads(st, w, BaseOf(ClassOf(x)), NameOf(x)) ELSE {} : x \in Refs(v)}

\* The files that world.get_provider(type_).get(name) reads, d the answer of the
\* resolver.
GetLoads(st, w, type_, name, d) ==
    IF ~Supported(type_) \/ d.err # "ok" \/ d.val = NoType \/ d.val \notin Scope(type_) THEN {}
    ELSE Loads(st, w, d.val, name)

\* The files that open.get_tracker(type_).track(b) reads: get of the baseline for
\* a name of the baseline; the file of the name and what its inflation reads when
\* the name is in the directory and not materialized; what the deflation of the
\* fields reads when the name is new.
TrackLoads(st, type_, b) ==
    IF ~Supported(type_) \/ ~IsNamed(b) THEN {}
    ELSE IF \/ DynTrack(st, "open", NameOf(b), BaseOf(ClassOf(b))).err # "ok"
            \/ BaseOf(ClassOf(b)) \notin Scope(type_)
            \/ ClassOf(b) # NamedOf(BaseOf(ClassOf(b))) THEN {}
    ELSE IF InBaseline(st, "open", BaseOf(ClassOf(b)), NameOf(b))
         THEN Loads(st, BaselineOf("open"), BaseOf(ClassOf(b)), NameOf(b))
    ELSE IF NameOf(b) \in CacheGetCachedNames(st, "open", BaseOf(ClassOf(b))) THEN {}
    ELSE IF KnownOnDisk(st, BaseOf(ClassOf(b)), NameOf(b))
         THEN {<<"open", BaseOf(ClassOf(b)), NameOf(b)>>} \cup StoredLoads(st, "open", BaseOf(ClassOf(b)), NameOf(b))
    ELSE UNION {DeflateLoads(st, "open", PayloadValues(b)[i]) : i \in DOMAIN PayloadValues(b)}

\* The log of a behaviour, kept in `last`: the files read, the files read more
\* than once, the same for the reads of get alone, the files read after a get had
\* returned their instance, and what each get returned: <<world asked, world of
\* the file, type, name, instance>>.
NoLog == [read |-> {}, reread |-> {}, getread |-> {}, getreread |-> {}, late |-> {}, got |-> {}]

Log == IF "got" \in DOMAIN last THEN last ELSE NoLog

\* What a successful get of world w adds to the log of what get returned.
Got(st, w, r) ==
    IF r.err # "ok" THEN {}
    ELSE {<<w, IF InBaseline(st, w, BaseOf(ClassOf(r.val)), NameOf(r.val)) THEN BaselineOf(w) ELSE w,
            BaseOf(ClassOf(r.val)), NameOf(r.val), r.val>>}

\* The variables after a call with result r that read the files `reads`; `got`
\* is what the call adds to the log of get, gets tells a get from another call.
Records(r, op, reads, gets, got) ==
    /\ files' = r.st.files
    /\ names' = r.st.names
    /\ balloons' = r.st.balloons
    /\ types' = r.st.types
    /\ last' = [op |-> op, err |-> r.err,
                read |-> Log.read \cup reads,
                reread |-> Log.reread \cup (Log.read \cap reads),
                getread |-> Log.getread \cup (IF gets THEN reads ELSE {}),
                getreread |-> Log.getreread \cup (IF gets THEN Log.getread \cap reads ELSE {}),
                late |-> Log.late \cup {f \in reads : \E g \in Log.got : <<g[2], g[3], g[4]>> = f},
                got |-> Log.got \cup got]

\* populate and to_open list the directories and read no file; the log is kept.
PopulateLogged ==
    /\ phase = "created"
    /\ phase' = IF BuildWorld(State, "closed").err = "ok" THEN "closed" ELSE "failed"
    /\ Records(IF BuildWorld(State, "closed").err = "ok" THEN BuildWorld(State, "closed")
               ELSE Fail(State, BuildWorld(State, "closed").err), "populate", {}, FALSE, {})

ToOpenLogged ==
    /\ phase = "closed"
    /\ phase' = IF BuildWorld(State, "open").err = "ok" THEN "open" ELSE "failed"
    /\ Records(IF BuildWorld(State, "open").err = "ok" THEN BuildWorld(State, "open")
               ELSE Fail(State, BuildWorld(State, "open").err), "to_open", {}, FALSE, {})

GetLogged(w, type_, name) ==
    /\ Built(w)
    /\ UNCHANGED phase
    /\ Records(GetCall(State, w, type_, name), "get",
               GetLoads(State, w, type_, name, DynGet(State, w, name, type_)), TRUE,
               Got(State, w, GetCall(State, w, type_, name)))

TrackLogged(type_, b) ==
    /\ phase = "open"
    /\ UNCHANGED phase
    /\ Records(TrackCall(State, type_, b), "track", TrackLoads(State, type_, b), FALSE, {})

DeflateLogged(w, type_, v) ==
    /\ Built(w)
    /\ UNCHANGED phase
    /\ Records(BalloonistDeflate(State, w, type_, v), "deflate",
               IF IsSubclass(ClassOf(v), type_) THEN DeflateLoads(State, w, v) ELSE {}, FALSE, {})

\* The values tracked and deflated next to the log: one instance of each dog of
\* the caller, and the owners of a named dog.
ReadPool == {b \in Dogs : b[3] = NewId(1)} \cup {b \in Owners : IsNamed(FieldsOf(b)["pet"])}

\* The calls of two worlds with the log of the reads: the providers for Animal,
\* Bird and Owner, the trackers for Animal and Owner, and the deflator.
NextReads ==
    \/ PopulateLogged
    \/ ToOpenLogged
    \/ \E w \in Worlds, type_ \in {"Animal", "Bird", "Owner"}, name \in Names \cup OwnerNames : GetLogged(w, type_, name)
    \/ \E type_ \in {"Animal", "Owner"}, b \in ReadPool : TrackLogged(type_, b)
    \/ \E w \in Worlds, v \in ReadPool : DeflateLogged(w, "Balloon", v)

SpecReads == Init /\ [][NextReads]_vars

\* ------------------------------------------------------------- properties

AllNames == Names \cup BirdNames \cup OwnerNames

RECURSIVE Associated(_, _, _)
\* The resolver of world w associates name n with type t, locally or through its
\* baseline.
Associated(w, t, n) == w # "empty" /\ (t \in Claimed(State, w, n) \/ Associated(BaselineOf(w), t, n))

\* Type t owns name n in world w: the resolver associates n with t, or the
\* specialized provider of t lists n.
Owns(w, t, n) == Associated(w, t, n) \/ n \in SpecGetNames(State, w, t)

\* The polymorphic trackers and providers that handle the type t.
Handlers(t) == {type_ \in RequestTypes : Supported(type_) /\ t \in Scope(type_)}

\* The instance was constructed by the caller.
IsNew(b) == b[3][1] = "new"

RECURSIVE Content(_)
\* The field contents of a value, the names included, without the identities of
\* the instances in it.
Content(v) ==
    CASE Kind(v) = "obj" -> <<"obj", ClassOf(v), [f \in DOMAIN FieldsOf(v) |-> Content(FieldsOf(v)[f])]>>
      [] Kind(v) = "tuple" -> <<"tuple", [i \in DOMAIN v[2] |-> Content(v[2][i])]>>
      [] Kind(v) = "set" -> <<"set", {Content(e) : e \in v[2]}>>
      [] Kind(v) = "dict" -> <<"dict", {<<Content(e[1]), Content(e[2])>> : e \in v[2]}>>
      [] OTHER -> v

DeepEqual(x, y) == Content(x) = Content(y)

\* The errors of track that report two values of one type and name.
IdentityConflict == {"TwoInMemory", "StoredConflict"}

\* C1: namespace exclusivity.  In every world that was built, after any calls, for
\* every name and every namespace type at most one managed type under the namespace
\* owns the name.
C1_NamespaceExclusivity ==
    \A w \in Worlds : Built(w) =>
        \A N \in NamespaceTypes, n \in AllNames :
            Cardinality({t \in Types : IsSubclass(t, N) /\ Owns(w, t, n)}) <= 1

\* Two successful track calls have put a dog and a bird, two types of the namespace
\* Animal, in the open world.
C1_Witness ==
    /\ phase = "open"
    /\ last = [op |-> "track", err |-> "ok"]
    /\ \E n \in DOMAIN balloons["open"]["Dog"] : IsNew(balloons["open"]["Dog"][n])
    /\ \E n \in DOMAIN balloons["open"]["Bird"] : IsNew(balloons["open"]["Bird"][n])

\* C2: write-once.  Once the open world is built, no call (get, track, deflate or
\* inflate, successful or failed) removes a file of either directory or changes its
\* content.
C2_WriteOnce ==
    [][phase = "open" =>
          \A w \in Worlds, t \in Types : \A n \in DOMAIN files[w][t] :
              n \in DOMAIN files'[w][t] /\ files'[w][t][n] = files[w][t][n]]_vars

\* A track call has failed in an open world that holds a file written by an
\* earlier track call and a file found when the world was built.
C2_Witness ==
    /\ phase = "open"
    /\ last.op = "track" /\ last.err \in IdentityConflict
    /\ \E t \in Types : \E n \in DOMAIN files["open"][t] :
          n \in DOMAIN balloons["open"][t] /\ IsNew(balloons["open"][t][n])
    /\ \E t \in Types : \E n \in DOMAIN files["open"][t] : n \notin DOMAIN balloons["open"][t]

\* C3 (as amended): tracking again the very instance that the open world or its
\* baseline holds under its name, through any tracker that handles its type,
\* succeeds and leaves the files, the caches and the resolver unchanged.
C3_RetrackSameInstance ==
    phase = "open" =>
        \A w \in Worlds, t \in Types : \A n \in DOMAIN balloons[w][t] :
            \A type_ \in Handlers(t) :
                n \in DOMAIN balloons[BaselineOf("open")][t] \/ w = "open" =>
                    TrackCall(State, type_, balloons[w][t][n]) = Ok(State, PyNone)

\* The open world holds an instance that the caller constructed and tracked, and
\* the last track call succeeded.
C3_Witness ==
    /\ phase = "open"
    /\ last = [op |-> "track", err |-> "ok"]
    /\ \E n \in DOMAIN balloons["open"]["Dog"] :
          /\ IsNew(balloons["open"]["Dog"][n])
          /\ \E w \in Pool : w # balloons["open"]["Dog"][n] /\ DeepEqual(w, balloons["open"]["Dog"][n])

\* C3 (as stated): once a named value v is tracked, tracking any value w of the
\* same concrete type with the same name and deeply equal field contents, v itself
\* or a distinct instance, succeeds and leaves everything unchanged.
C3_Original ==
    phase = "open" =>
        \A t \in Types : \A n \in DOMAIN balloons["open"][t] :
            \A w \in Pool :
                (ClassOf(w) = NamedOf(t) /\ DeepEqual(w, balloons["open"][t][n])) =>
                    \A type_ \in Handlers(t) : TrackCall(State, type_, w) = Ok(State, PyNone)

\* C4 (as stated): tracking a named value whose type and name are occupied, in
\* the baseline, in the cache or only on disk, by a value whose field contents
\* differ fails with an identity conflict, and leaves the files and the value that
\* get returns for the name as they were.
C4_Original ==
    phase = "open" =>
        \A b \in Pool :
            LET t == BaseOf(ClassOf(b))
                n == NameOf(b)
                held == SpecGet(State, "open", t, n)
            IN  (n \in SpecGetNames(State, "open", t) /\ held.err = "ok" /\ ~DeepEqual(b, held.val)) =>
                    \A type_ \in Handlers(t) :
                        LET r == TrackCall(State, type_, b)
                        IN  /\ r.err \in IdentityConflict
                            /\ r.st.files = files
                            /\ SpecGet(r.st, "open", t, n).val = held.val

\* C5: provider layering.  In an open world, for every name the closed world owns
\* for a type, every get of the name through the open world returns the closed
\* world's value, and a track of any other instance of that type and name fails
\* and leaves that so.
C5_ProviderLayering ==
    phase = "open" =>
        \A t \in Types : \A n \in SpecGetNames(State, "closed", t) :
            LET c == SpecGet(State, "closed", t, n)
            IN  /\ c.err = "ok"
                /\ \A type_ \in Handlers(t) : GetCall(State, "open", type_, n).val = c.val
                /\ \A b \in Pool, via \in Handlers(t) :
                      (ClassOf(b) = NamedOf(t) /\ NameOf(b) = n /\ b # c.val) =>
                          LET r == TrackCall(State, via, b)
                          IN  /\ r.err \in IdentityConflict
                              /\ r.st.files = files
                              /\ \A type_ \in Handlers(t) : GetCall(r.st, "open", type_, n).val = c.val

\* The closed world owns a dog that a get has loaded, the directory of the open
\* world has a file of the same name and other content, and a track of another
\* dog of that name has just failed.
C5_Witness ==
    /\ phase = "open"
    /\ last = [op |-> "track", err |-> "TwoInMemory"]
    /\ \E n \in DOMAIN balloons["closed"]["Dog"] :
          /\ n \in DOMAIN files["open"]["Dog"]
          /\ files["open"]["Dog"][n] # files["closed"]["Dog"][n]

\* The named values that the fields of b refer to.
NamedPets(b) == IF "pet" \in DOMAIN FieldsOf(b) /\ IsNamed(FieldsOf(b).pet) THEN {FieldsOf(b).pet} ELSE {}

\* C6 (as stated): a track of a named value whose name is not known, and whose
\* fields refer to named values that no type owns yet, tracks those first and
\* succeeds: afterwards the referenced values and the value have their files.
C6_Original ==
    phase = "open" =>
        \A b \in Owners :
            (/\ \A t \in Types : ~Owns("open", t, NameOf(b))
             /\ NamedPets(b) # {}
             /\ \A p \in NamedPets(b) : \A t \in Types : ~Owns("open", t, NameOf(p))) =>
                LET r == TrackCall(State, "Owner", b)
                IN  /\ r.err = "ok"
                    /\ NameOf(b) \in DOMAIN r.st.files["open"]["Owner"]
                    /\ \A p \in NamedPets(b) : NameOf(p) \in DOMAIN r.st.files["open"][BaseOf(ClassOf(p))]

\* C7: no partial success.  A track call that fails has created no file, of the
\* top-level name or of any other, and has not added the value to the cache.
C7_NoPartialTrack ==
    phase = "open" =>
        \A type_ \in RequestTypes, b \in Pool :
            LET r == TrackCall(State, type_, b)
                t == BaseOf(ClassOf(b))
                n == NameOf(b)
                Cached(st) == n \in DOMAIN st.balloons["open"][t] /\ st.balloons["open"][t][n] = b
            IN  r.err # "ok" =>
                    /\ r.st.files = files
                    /\ Cached(r.st) => Cached(State)

\* A track of an owner has failed in the deflation of its pet, after the resolver
\* recorded the owner's name, and the owner has no file and is not cached.
C7_Witness ==
    /\ phase = "open"
    /\ last = [op |-> "track", err |-> "NotFound"]
    /\ \E n \in OwnerNames :
          /\ "Owner" \in Claimed(State, "open", n)
          /\ n \notin DOMAIN files["open"]["Owner"]
          /\ n \notin DOMAIN balloons["open"]["Owner"]

\* C8 (as stated): identity stability.  Two named values of the same declaring
\* base type are equal exactly when their names are equal, whatever their other
\* fields hold, for the derived named classes and for the name-only classes.
C8_Original ==
    last.op = "eq" =>
        (BaseOf(ClassOf(last.a)) = BaseOf(ClassOf(last.b)) =>
            (last.val <=> NameOf(last.a) = NameOf(last.b)))

RECURSIVE PlainKeys(_)
\* Every key of every mapping in the value is a named value, an enum member or a
\* string.
PlainKeys(v) ==
    CASE IsNamed(v) -> TRUE
      [] Kind(v) = "obj" -> \A f \in DOMAIN FieldsOf(v) : PlainKeys(FieldsOf(v)[f])
      [] Kind(v) = "tuple" -> \A i \in DOMAIN v[2] : PlainKeys(v[2][i])
      [] Kind(v) = "set" -> \A e \in v[2] : PlainKeys(e)
      [] Kind(v) = "dict" -> \A e \in v[2] : (IsNamed(e[1]) \/ Kind(e[1]) \in {"enum", "str"}) /\ PlainKeys(e[2])
      [] OTHER -> TRUE

\* World w holds the instance b under its type and name.
Holds(w, b) ==
    /\ BaseOf(ClassOf(b)) \in Types
    /\ SpecGet(State, w, BaseOf(ClassOf(b)), NameOf(b)) = Ok(State, b)

\* The instances world w has in its cache or in the cache of its baseline.
Held(w) ==
    UNION {{balloons[x][t][n] : n \in DOMAIN balloons[x][t]} : x \in {y \in Worlds : y \in {w, BaselineOf(w)}}, t \in Types}

\* The values of the codec of world w: the values of the caller, the instances
\* the world holds, and anonymous owners of the animals among those.
CodecValues(w) ==
    CodecPool \cup Held(w) \cup {Obj("Owner", NoId, [pet |-> h]) : h \in {x \in Held(w) : IsSubclass(ClassOf(x), "Animal")}}

\* inflate(deflate(v), T) over the codec of world w, T the registered type of v.
RoundTrip(w, v) ==
    LET d == Deflate(State, w, v)
    IN  IF d.err # "ok" THEN d ELSE Inflate(d.st, w, d.val, TClass(BaseOf(ClassOf(v))))

\* C9 (as amended): codec round trip.  For a value of a registered type whose
\* mapping keys are named values, enum members or strings, once the world holds
\* every named value it refers to, inflate(deflate(v), T) with T the registered
\* type of v succeeds, equals v, and has the same instances as v.
C9_RoundTrip ==
    \A w \in Worlds : Built(w) =>
        \A v \in CodecValues(w) :
            (PlainKeys(v) /\ \A b \in Refs(v) : Holds(w, b)) =>
                LET r == RoundTrip(w, v)
                IN  r.err = "ok" /\ PyEq(r.val, v) /\ r.val = v

\* A deflate call has succeeded in an open world that holds a dog of the caller,
\* to which kennels and owners of the codec refer, and a bird.
C9_Witness ==
    /\ phase = "open"
    /\ last = [op |-> "deflate", err |-> "ok"]
    /\ \E v \in Kennels \cup AnonOwners : Refs(v) # {} /\ \A b \in Refs(v) : IsNew(b) /\ Holds("open", b)
    /\ balloons["open"]["Bird"] # EmptyMap

\* C9 (as stated): the round trip holds for any value of a registered type built
\* from the type grammar, mappings of any key included.
C9_Original ==
    \A w \in Worlds : Built(w) =>
        \A v \in CodecValues(w) :
            (\A b \in Refs(v) : Holds(w, b)) =>
                LET r == RoundTrip(w, v)
                IN  r.err = "ok" /\ PyEq(r.val, v) /\ r.val = v

\* C10: namespace conflict on track.  When a type T owns a name within a
\* namespace N, a track of a named value of that name and of another type under N
\* fails with a namespace conflict, writes no file, and leaves what get returns
\* for the name on the provider of N as it was: T's value when T has one.
C10_NamespaceConflict ==
    phase = "open" =>
        \A b \in Pool, N \in NamespaceTypes, T \in Types :
            LET n == NameOf(b)
                before == GetCall(State, "open", N, n)
            IN  (/\ T # BaseOf(ClassOf(b))
                 /\ IsSubclass(T, N) /\ IsSubclass(BaseOf(ClassOf(b)), N)
                 /\ Owns("open", T, n)) =>
                    /\ n \in SpecGetNames(State, "open", T) =>
                          before.err = "ok" /\ ClassOf(before.val) = NamedOf(T)
                    /\ \A type_ \in RequestTypes :
                          LET r == TrackCall(State, type_, b)
                          IN  /\ Supported(type_) => r.err = "NamespaceConflict"
                              /\ r.err # "ok"
                              /\ r.st.files = files
                              /\ GetCall(r.st, "open", N, n).val = before.val

\* A track has failed with a namespace conflict in an open world that holds a dog
\* under a name of which there is no bird file.
C10_Witness ==
    /\ phase = "open"
    /\ last = [op |-> "track", err |-> "NamespaceConflict"]
    /\ \E n \in AllNames :
          /\ n \in DOMAIN balloons["open"]["Dog"] \cup DOMAIN balloons["closed"]["Dog"]
          /\ n \notin DOMAIN files["open"]["Bird"]

\* The types a provider can be requested for: the managed types and the namespace
\* types.
ProviderTypes == Types \cup NamespaceTypes

\* From state st, get(b.name) on the provider of every type inside a namespace that
\* the type of b is a subtype of returns the instance b.
GetsBack(st, b) ==
    \A type_ \in ProviderTypes :
        (Supported(type_) /\ IsSubclass(BaseOf(ClassOf(b)), type_)) =>
            LET r == GetCall(st, "open", type_, NameOf(b))
            IN  r.err = "ok" /\ r.val = b

\* C11: get after track.  In the open world, a successful track of a named value
\* b, a value of the caller or an instance the world holds, leaves a state in
\* which get(b.name) on the provider of every type inside a namespace that b's
\* type is a subtype of returns b; and an instance that the world holds and that
\* get returns in this way is still returned so after every later call that
\* changes the files, the caches or the resolver.
C11_GetAfterTrack ==
    /\ [](phase = "open" =>
            \A b \in Pool \cup Held("open"), type_ \in RequestTypes :
                LET r == TrackCall(State, type_, b)
                IN  r.err = "ok" =>
                        /\ GetsBack(r.st, b)
                        /\ \E w \in Worlds, t \in Types :
                              /\ NameOf(b) \in DOMAIN r.st.balloons[w][t]
                              /\ r.st.balloons[w][t][NameOf(b)] = b)
    /\ [][(phase = "open" /\ State' # State) =>
            \A b \in Held("open") : GetsBack(State, b) => GetsBack(State', b)]_vars

\* A get has succeeded in an open world after a track put a dog of the caller in
\* it, and the provider of Animal returns that dog.
C11_Witness ==
    /\ phase = "open"
    /\ last = [op |-> "get", err |-> "ok"]
    /\ \E b \in Dogs :
          /\ NameOf(b) \in DOMAIN balloons["open"]["Dog"]
          /\ balloons["open"]["Dog"][NameOf(b)] = b
          /\ GetCall(State, "open", "Animal", NameOf(b)) = Ok(State, b)

RECURSIVE WireOf(_)
\* The wire form of a value as a file holds it: a named value is its reference
\* string, an anonymous record an object of its type name and the wire forms of
\* its fields, an enum member its name, a sequence or a set an array (a set in the
\* order it is iterated), an atomic and None themselves.
WireOf(v) ==
    CASE IsNamed(v) -> PyStr(QualName(BaseOf(ClassOf(v))) \o <<":">> \o NameOf(v))
      [] Kind(v) = "obj" ->
            PyDict({<<PyStr(<<"type">>), PyStr(QualName(ClassOf(v)))>>,
                    <<PyStr(<<"fields">>),
                      PyDict({<<PyStr(<<f>>), WireOf(FieldsOf(v)[f])>> : f \in DOMAIN FieldsOf(v)})>>})
      [] Kind(v) = "tuple" -> PyList([i \in DOMAIN v[2] |-> WireOf(v[2][i])])
      [] Kind(v) = "set" -> PyList([i \in DOMAIN SetToSeq(v[2]) |-> WireOf(SetToSeq(v[2])[i])])
      [] Kind(v) = "dict" -> PyDict({<<WireOf(e[1]), WireOf(e[2])>> : e \in v[2]})
      [] Kind(v) = "enum" -> PyStr(<<v[3]>>)
      [] OTHER -> v

\* The content of the file of a named value: the wire form of each of its fields
\* but the name.
FileOf(b) == [f \in DOMAIN FieldsOf(b) \ {"name"} |-> WireOf(FieldsOf(b)[f])]

\* C12: persisted content.  In the open world, a successful track of a named
\* value b whose name the provider of its type did not list leaves the file
\* <type of b>/<name of b>.json, and its content is the wire form of each field of
\* b but the name, a named value among them as its reference string.
C12_PersistedContent ==
    phase = "open" =>
        \A b \in Pool, type_ \in RequestTypes :
            LET t == BaseOf(ClassOf(b))
                r == TrackCall(State, type_, b)
            IN  (NameOf(b) \notin SpecGetNames(State, "open", t) /\ r.err = "ok") =>
                    /\ NameOf(b) \in DOMAIN r.st.files["open"][t]
                    /\ r.st.files["open"][t][NameOf(b)] = FileOf(b)

\* A track has written the file of an owner whose pet is the dog "b", a named
\* value, and the file of that dog; no directory held them when the world was
\* built.
C12_Witness ==
    /\ phase = "open"
    /\ last = [op |-> "track", err |-> "ok"]
    /\ <<"b">> \in DOMAIN files["open"]["Dog"]
    /\ \E n \in DOMAIN files["open"]["Owner"] :
          files["open"]["Owner"][n] = [pet |-> PyStr(<<"Dog", ":", "b">>)]

\* C13: deflate identity check.  In every world that was built, the deflate of
\* a named value v, a value of the caller or an instance the world holds, returns
\* the reference string of v when the provider of v's base type lists the name of
\* v and its get returns the instance v itself; when the name is not listed the
\* deflate fails with not-found, and when get fails or returns another instance
\* it fails as well, and no wire value is returned.
C13_DeflateIdentity ==
    \A w \in Worlds : Built(w) =>
        \A v \in Pool \cup Held(w) :
            LET t == BaseOf(ClassOf(v))
                r == Deflate(State, w, v)
                known == NameOf(v) \in SpecGetNames(State, w, t)
                held == SpecGet(State, w, t, NameOf(v))
            IN  /\ r.err = "ok" <=> (known /\ held.err = "ok" /\ held.val = v)
                /\ r.err = "ok" => r.val = PyStr(<<t, ":">> \o NameOf(v))
                /\ r.err # "ok" => r.val = PyNone
                /\ ~known => r.err = "NotFound"
                /\ (known /\ held.err = "ok" /\ held.val # v) => r.err = "TwoSameName"

\* A deflate has failed because the open world holds another instance under the
\* name: a dog "a" that the caller tracked, while the caller has a second dog "a".
C13_Witness ==
    /\ phase = "open"
    /\ last = [op |-> "deflate", err |-> "TwoSameName"]
    /\ <<"a">> \in DOMAIN balloons["open"]["Dog"]
    /\ IsNew(balloons["open"]["Dog"][<<"a">>])
    /\ \E v \in Dogs : NameOf(v) = <<"a">> /\ v # balloons["open"]["Dog"][<<"a">>]

\* The classes a wrapper is requested for: the managed types, the namespace
\* types, the types above and beside the namespaces, and a named class.
RequestedClasses == ProviderTypes \cup RequestTypes \cup {"NamedBalloon", "Dog.Named"}

\* C14: wrapper scoping.  get_provider of every world, and get_tracker and
\* get_manager of the open world, fail for every type that is a subtype of no
\* namespace type, and so does every get and track through them, which changes
\* nothing; for a type inside a namespace they return a wrapper of exactly the
\* managed types that are subtypes of the requested type, through which a get
\* returns, and a track accepts, only values of those types.
C14_WrapperScope ==
    \A type_ \in RequestedClasses :
        LET inside == \E N \in NamespaceTypes : IsSubclass(type_, N)
            expected == {t \in Types : IsSubclass(t, type_)}
            Right(r) == IF inside THEN r.err = "ok" /\ r.val.scope = expected /\ r.st = State
                        ELSE r = Fail(State, "UnsupportedType")
        IN  /\ \A w \in Worlds : Built(w) =>
                  /\ Right(GetProvider(State, w, type_))
                  /\ \A n \in AllNames :
                        LET g == GetCall(State, w, type_, n)
                        IN  /\ ~inside => g = Fail(State, "UnsupportedType")
                            /\ (inside /\ g.err = "ok") => BaseOf(ClassOf(g.val)) \in expected
            /\ phase = "open" =>
                  /\ Right(GetTracker(State, type_))
                  /\ LET m == GetManager(State, type_)
                     IN  IF inside
                         THEN /\ m.err = "ok" /\ m.st = State
                              /\ m.val.provider.scope = expected /\ m.val.tracker.scope = expected
                         ELSE m = Fail(State, "UnsupportedType")
                  /\ \A b \in Pool :
                        LET r == TrackCall(State, type_, b)
                        IN  /\ ~inside => r = Fail(State, "UnsupportedType")
                            /\ (inside /\ r.err = "ok") => BaseOf(ClassOf(b)) \in expected

\* get_manager has just failed for a type outside every namespace, in an open
\* world that holds a dog and a bird of the caller: two types of the namespace
\* Animal, of which the wrapper for Bird has only one.
C14_Witness ==
    /\ phase = "open"
    /\ last = [op |-> "get_manager", err |-> "UnsupportedType"]
    /\ \E n \in DOMAIN balloons["open"]["Dog"] : IsNew(balloons["open"]["Dog"][n])
    /\ \E n \in DOMAIN balloons["open"]["Bird"] : IsNew(balloons["open"]["Bird"][n])
    /\ GetProvider(State, "open", "Bird").val.scope = {"Bird"}

\* Values that are not named instances: anonymous records, None and an atomic.
Unnamed == AnonDogs \cup AnonOwners \cup AnonKeyKennels \cup {PyNone, PyInt(1)}

\* C15: track of a value that is not named.  In the open world, a track of a
\* value that is not a named instance, through the tracker of any type, fails,
\* with the not-named error when the tracker exists, and leaves the files, the
\* caches and the resolver unchanged.
C15_TrackUnnamed ==
    phase = "open" =>
        \A v \in Unnamed, type_ \in RequestTypes :
            LET r == TrackCall(State, type_, v)
            IN  /\ r.err # "ok"
                /\ Supported(type_) => r.err = "NotNamed"
                /\ r.st = State

\* A track of a value that is not named has just failed in an open world that
\* holds a dog of the caller.
C15_Witness ==
    /\ phase = "open"
    /\ last = [op |-> "track", err |-> "NotNamed"]
    /\ \E n \in DOMAIN balloons["open"]["Dog"] : IsNew(balloons["open"]["Dog"][n])

\* C16: no ambiguous resolution.  In every world that was built, after any
\* calls, for every name and every requested type inside a namespace, at most one
\* type that the resolver has recorded for the name is a subtype of the requested
\* type, the resolver's get raises nothing, and no get or track of the caller
\* ends, or has ended, with the multiple-balloons error.
C16_NoAmbiguity ==
    /\ last.err # "MultipleBalloons"
    /\ \A w \in Worlds : Built(w) =>
          \A n \in AllNames, type_ \in RequestedClasses :
              Supported(type_) =>
                  /\ Cardinality({t \in Claimed(State, w, n) : IsSubclass(t, type_)}) <= 1
                  /\ DynGet(State, w, n, type_).err = "ok"
                  /\ GetCall(State, w, type_, n).err # "MultipleBalloons"
    /\ phase = "open" =>
          \A b \in Pool, type_ \in RequestTypes : TrackCall(State, type_, b).err # "MultipleBalloons"

\* A get has succeeded in a world whose resolver has recorded two types for one
\* name, a dog and an owner, each in its own namespace.
C16_Witness ==
    /\ last = [op |-> "get", err |-> "ok"]
    /\ \E w \in Worlds, n \in AllNames :
          /\ Built(w)
          /\ Cardinality(Claimed(State, w, n)) = 2
          /\ DynGet(State, w, n, "Animal") = Ok(State, "Dog")
          /\ DynGet(State, w, n, "Owner") = Ok(State, "Owner")

\* C17: polymorphic scoping.  In every world that was built, a get through the
\* provider of a requested type inside a namespace returns only a value whose
\* type is a subtype of the requested type; and when the name is owned, in the
\* world or its baseline, only by types that are not subtypes of the requested
\* type, the resolver finds no type in the world nor in its baseline and the get
\* fails with not-found and changes nothing.
C17_PolymorphicScoping ==
    \A w \in Worlds : Built(w) =>
        \A n \in AllNames, type_ \in RequestedClasses :
            Supported(type_) =>
                LET g == GetCall(State, w, type_, n)
                    owners == {t \in Types : Owns(w, t, n)}
                IN  /\ g.err = "ok" => IsSubclass(ClassOf(g.val), type_)
                    /\ (owners # {} /\ \A t \in owners : ~IsSubclass(t, type_)) =>
                          /\ g = Fail(State, "NotFound")
                          /\ DynGet(State, w, n, type_) = Ok(State, NoType)
                          /\ DynGet(State, BaselineOf(w), n, type_) = Ok(State, NoType)

\* A get has failed with not-found in an open world in which a dog, and no bird,
\* owns the name "a", here or in the baseline: the provider of Bird does not find
\* it and the provider of Animal does.
C17_Witness ==
    /\ phase = "open"
    /\ last = [op |-> "get", err |-> "NotFound"]
    /\ Owns("open", "Dog", <<"a">>)
    /\ ~Owns("open", "Bird", <<"a">>)
    /\ GetCall(State, "open", "Bird", <<"a">>) = Fail(State, "NotFound")
    /\ GetCall(State, "open", "Animal", <<"a">>).err = "ok"

\* What a caller sees of a call: how it ended and the value it returned.
Outcome(r) == <<r.err, r.val>>

\* What the closed world shows in state st: the names its providers list, the
\* type its resolver returns for each name and requested type, and the outcome
\* and the value of each get of its providers.
Shown(st) ==
    [names |-> [t \in Types |-> SpecGetNames(st, "closed", t)],
     types |-> [n \in AllNames, type_ \in ProviderTypes |-> Outcome(DynGet(st, "closed", n, type_))],
     values |-> [n \in AllNames, t \in Types |-> Outcome(SpecGet(st, "closed", t, n))]]

\* C18: the baseline is never mutated by the overlay.  Once the open world is
\* built over the closed world, no call (get, track, deflate, inflate or
\* get_manager, successful or failed) changes the names the providers of the
\* closed world list, the type its resolver returns for any name, or the value its
\* providers return for any name.  The closed world itself is built over the
\* world of create, which has no names, no types and no values at any time.
C18_BaselineUntouched ==
    [][(phase = "open" /\ State' # State) => Shown(State') = Shown(State)]_vars

\* A track has put a dog of the caller in the open world, built over a closed
\* world that owns a dog which a get has loaded.
C18_Witness ==
    /\ phase = "open"
    /\ last = [op |-> "track", err |-> "ok"]
    /\ DOMAIN balloons["closed"]["Dog"] # {}
    /\ \E n \in DOMAIN balloons["open"]["Dog"] :
          IsNew(balloons["open"]["Dog"][n]) /\ n \notin names["closed"]["Dog"]

\* The directory that world w is to be built on collides: it holds a name under
\* two managed types of one namespace, or under a managed type a name that the
\* baseline of w owns under another managed type of the namespace.
Collides(w) ==
    \E N \in NamespaceTypes, t1 \in Types, t2 \in Types, n \in AllNames :
        /\ t1 # t2 /\ IsSubclass(t1, N) /\ IsSubclass(t2, N)
        /\ n \in DOMAIN files[w][t1]
        /\ n \in DOMAIN files[w][t2] \/ Owns(BaselineOf(w), t2, n)

\* C19: construction rejects colliding inventories.  populate, on a directory
\* that collides, and to_open, on a directory that collides in itself or with
\* the closed world, fail with a namespace conflict: no world is produced and
\* nothing of the worlds that exist is changed.
C19_ConstructionRejects ==
    [][\A w \in Worlds :
          (phase = (IF w = "closed" THEN "created" ELSE "closed") /\ Collides(w) /\ phase' # phase) =>
              /\ phase' = "failed"
              /\ last' = [op |-> IF w = "closed" THEN "populate" ELSE "to_open", err |-> "NamespaceConflict"]
              /\ State' = State]_vars

\* to_open has failed with a namespace conflict on a directory with a bird of
\* the name of a dog of the closed world.
C19_Witness ==
    /\ phase = "failed"
    /\ last = [op |-> "to_open", err |-> "NamespaceConflict"]
    /\ \E n \in DOMAIN files["open"]["Bird"] : n \in DOMAIN files["closed"]["Dog"]

\* The type names of wire values: the managed types, a type that is not managed
\* and a named class.
TypeNames == Types \cup {"Cat", "Dog.Named"}

\* The declared types a wire value is inflated for.
DeclaredTypes == {"Animal", "Dog", "Bird", "Owner", "Balloon"}

\* C20: inflate rejects a wire value of the wrong type.  In every world that was
\* built, inflating for a declared type a reference string, or a tagged object,
\* fails and returns no value when its type name is not a managed type (key
\* error) or names a type that is not a subtype of the declared type (assertion
\* error); a reference of a right type whose name the provider of the type does
\* not list fails with not-found; and what a successful inflate returns is of a
\* subtype of the declared type.  A failed inflate changes nothing.  The subtype
\* check of the code is an assert statement, in effect when Python runs without -O.
C20_InflateRejects ==
    \A w \in Worlds : Built(w) =>
        \A T \in DeclaredTypes, h \in TypeNames :
            LET Rejected(r) ==
                    /\ h \notin Types => r = Fail(State, "KeyError")
                    /\ (h \in Types /\ ~IsSubclass(h, T)) => r = Fail(State, "AssertionError")
                    /\ r.err = "ok" => IsSubclass(ClassOf(r.val), T)
            IN  /\ \A n \in AllNames :
                      /\ Rejected(Inflate(State, w, RefWire(h, n), TClass(T)))
                      /\ (h \in Types /\ IsSubclass(h, T) /\ n \notin SpecGetNames(State, w, h)) =>
                            Inflate(State, w, RefWire(h, n), TClass(T)) = Fail(State, "NotFound")
                /\ h \in {"Dog", "Owner", "Cat"} => Rejected(Inflate(State, w, TaggedWire(h), TClass(T)))

\* An inflate has failed with a key error, for a type that is not managed, in an
\* open world that holds an owner of the caller, whose reference is rejected as an
\* Animal and resolved as an Owner.
C20_Witness ==
    /\ phase = "open"
    /\ last = [op |-> "inflate", err |-> "KeyError"]
    /\ \E n \in DOMAIN balloons["open"]["Owner"] :
          /\ IsNew(balloons["open"]["Owner"][n])
          /\ Inflate(State, "open", RefWire("Owner", n), TClass("Animal")) = Fail(State, "AssertionError")
          /\ Inflate(State, "open", RefWire("Owner", n), TClass("Owner")).err = "ok"

\* The file stems of the directory of world w for the type t.
Stems(w, t) == DOMAIN files[w][t]

\* C21: known names track the directory.  In every state of a world that was built
\* (one writer, no file changed from outside), for each managed type the names the
\* cache knows are the stems of the files of the type's directory, and the names
\* it has materialized are among the names it knows.
C21_KnownNamesTrackDirectory ==
    \A w \in Worlds, t \in Types :
        Built(w) => /\ CacheGetAllNames(State, w, t) = Stems(w, t)
                    /\ CacheGetCachedNames(State, w, t) \subseteq CacheGetAllNames(State, w, t)

\* A track has just written a new file next to a file that was there when the
\* world was opened and has not been materialized.
C21_Witness ==
    /\ phase = "open"
    /\ last = [op |-> "track", err |-> "ok"]
    /\ \E t \in Types : \E n \in Stems("open", t), m \in Stems("open", t) :
            /\ n \in CacheGetCachedNames(State, "open", t)
            /\ IsNew(balloons["open"][t][n])
            /\ m \notin CacheGetCachedNames(State, "open", t)

\* The reference p denotes a name that the open world's specialized provider of
\* its type knows in state st: the name has a file in the directory of the open
\* world, or the baseline owns it.
Resolves(st, p) ==
    \E u \in Types :
        /\ QualName(u) = p.head
        /\ p.tail \in SpecGetNames(st, "open", u)
        /\ p.tail \in DOMAIN st.files["open"][u] \/ p.tail \in SpecGetNames(st, "closed", u)

\* C22: referential integrity on disk.  In the open world, every file that a call
\* creates holds only reference strings "<type>:<name>" of names that the
\* specialized provider of that type knows once the call is over; and no call
\* removes a file, changes one, or makes a provider forget a name, so a file is
\* never in the directory before the files it refers to.
C22_ReferentialIntegrity ==
    [][(phase = "open" /\ State' # State) =>
          \A t \in Types :
              /\ SpecGetNames(State, "open", t) \subseteq SpecGetNames(State', "open", t)
              /\ \A n \in DOMAIN files["open"][t] :
                      n \in DOMAIN files'["open"][t] /\ files'["open"][t][n] = files["open"][t][n]
              /\ \A n \in DOMAIN files'["open"][t] \ DOMAIN files["open"][t] :
                      \A p \in FileRefs(files'["open"][t][n]) : Resolves(State', p)]_vars

\* A track has written the file of an owner that refers to a dog of which no
\* directory had a file when the world was opened.
C22_Witness ==
    /\ phase = "open"
    /\ last = [op |-> "track", err |-> "ok"]
    /\ \E n \in DOMAIN files["open"]["Owner"] :
            /\ FileRefs(files["open"]["Owner"][n]) = {Partition(RefString("Dog", <<"b">>)[2])}
            /\ <<"b">> \in DOMAIN files["open"]["Dog"]

\* C23: a failed track leaves the resolver unchanged.  When a track of the open
\* world's polymorphic tracker fails, whatever the error, the resolver associates
\* every name with the same types as before the call.
C23_Original ==
    [][(phase = "open" /\ last'.op = "track" /\ last'.err # "ok") =>
          \A n \in AllNames : Claimed(State', "open", n) = Claimed(State, "open", n)]_vars

\* C24: every listed name is gettable.  In every world that was built (each file
\* of Directories is one that a track writes), for every polymorphic provider and every name its get_names lists, get of that name
\* succeeds and returns a value of that name whose managed type is one the
\* provider was given and the one the resolver associates with the name.
C24_ListedIsGettable ==
    \A w \in Worlds, type_ \in ProviderTypes :
        (Built(w) /\ Supported(type_)) =>
            \A n \in PolyGetNames(State, w, type_) :
                LET r == GetCall(State, w, type_, n)
                IN  /\ r.err = "ok"
                    /\ IsNamed(r.val)
                    /\ NameOf(r.val) = n
                    /\ BaseOf(ClassOf(r.val)) \in Scope(type_)
                    /\ Associated(w, BaseOf(ClassOf(r.val)), n)

\* After a get, the provider of the open world for Animal lists a name that a
\* track added and a name of the directory that is not materialized.
C24_Witness ==
    /\ phase = "open"
    /\ last = [op |-> "get", err |-> "ok"]
    /\ \E n \in PolyGetNames(State, "open", "Animal"), m \in PolyGetNames(State, "open", "Animal") :
            /\ n \in CacheGetCachedNames(State, "open", "Dog") /\ IsNew(balloons["open"]["Dog"][n])
            /\ m \in CacheGetAllNames(State, "open", "Dog") \ CacheGetCachedNames(State, "open", "Dog")

\* The named values reachable from the fields of a held value.
FieldRefs(h) == UNION {Refs(FieldsOf(h)[f]) : f \in DOMAIN FieldsOf(h)}

\* C25: reference closure of the cache.  In every state of the open world, for
\* every value in a cache of the open world or of its baseline, each named value
\* reachable from its fields is the very instance that the open world's
\* specialized provider of its type returns for its name.
C25_Original ==
    phase = "open" =>
        \A h \in Held("open") : \A x \in FieldRefs(h) :
            /\ BaseOf(ClassOf(x)) \in Types
            /\ LET r == SpecGet(State, "open", BaseOf(ClassOf(x)), NameOf(x))
               IN  r.err = "ok" /\ r.val = x

\* C26: deflate is read-only.  A deflate, whether it succeeds or fails, leaves
\* what every cache has materialized as it was, and every track ends after it as
\* it would have ended before it.
C26_Original ==
    [][(last'.op = "deflate" /\ State' # State) =>
          /\ balloons' = balloons
          /\ phase = "open" =>
                \A b \in Pool, type_ \in RequestTypes :
                    TrackCall(State', type_, b).err = TrackCall(State, type_, b).err]_vars

\* A get never returns two instances for one world, type and name.
GotOne == \A g \in Log.got, h \in Log.got : (g[1] = h[1] /\ g[3] = h[3] /\ g[4] = h[4]) => g[5] = h[5]

\* C27 (as amended): reference stability of get.  Within a world, once get of a
\* name has returned an instance for a managed type, every later get of the name
\* that resolves to that type, through any provider of the world and after any
\* get, track and deflate, returns that instance; the gets read the file of a
\* name at most once, and no call reads it after a get has returned.  (An
\* instance built from a file is told from another by the read that built it.)
C27_StableGet ==
    /\ GotOne
    /\ Log.getreread = {}
    /\ Log.late = {}

\* In the open world a get has returned an instance that a track put in the
\* cache, and a get of the open world and a get of the closed world have returned
\* the one instance built from a file of the baseline.
C27_Witness ==
    /\ phase = "open"
    /\ last.op = "get" /\ last.err = "ok"
    /\ \E g \in Log.got, h \in Log.got :
            g[1] # h[1] /\ <<g[2], g[3], g[4], g[5]>> = <<h[2], h[3], h[4], h[5]>> /\ ~IsNew(g[5])
    /\ \E g \in Log.got : IsNew(g[5])

\* C27: reference stability of get.  Every get of a name returns the instance
\* that the first one returned, and the file of a name is read at most once.
C27_Original ==
    /\ GotOne
    /\ Log.reread = {}

\* The state of create(...) next to the directories closed_ and open_.
Created(closed_, open_) ==
    [files |-> [w \in Worlds |-> IF w = "closed" THEN closed_ ELSE open_],
     names |-> [w \in Worlds |-> [t \in Types |-> {}]],
     balloons |-> [w \in Worlds |-> [t \in Types |-> EmptyMap]],
     types |-> [w \in Worlds |-> EmptyMap]]

\* get(name) of the provider for type_ in a new world over the directory d:
\* create(...).populate(d) when w is "closed", and when w is "open" the open
\* world of to_open(d) over a closed world that holds nothing.
Reopened(d, w, type_, name) ==
    IF w = "closed"
    THEN LET c == BuildWorld(Created(d, NoFiles), "closed")
         IN  IF c.err # "ok" THEN c ELSE GetCall(c.st, "closed", type_, name)
    ELSE LET c == BuildWorld(Created(NoFiles, d), "closed")
             o == IF c.err # "ok" THEN c ELSE BuildWorld(c.st, "open")
         IN  IF o.err # "ok" THEN o ELSE GetCall(o.st, "open", type_, name)

\* C28: persistence round trip across worlds.  In an open world over a closed
\* world that holds nothing, for every value that a track has put in the cache
\* and whose named values the cache holds too, a new world over the directory of
\* the open world, closed or open, returns from get of its name a value of its
\* class and name with deeply equal fields.
C28_Original ==
    (phase = "open" /\ files["closed"] = NoFiles) =>
        \A t \in Types : \A n \in DOMAIN balloons["open"][t] :
            (IsNew(balloons["open"][t][n]) /\ FieldRefs(balloons["open"][t][n]) \subseteq Held("open")) =>
                \A w \in Worlds, type_ \in {u \in ProviderTypes : Supported(u) /\ t \in Scope(u)} :
                    LET r == Reopened(files["open"], w, type_, n)
                    IN  /\ r.err = "ok"
                        /\ ClassOf(r.val) = ClassOf(balloons["open"][t][n])
                        /\ NameOf(r.val) = n
                        /\ DeepEqual(r.val, balloons["open"][t][n])

====
